---- MODULE Spec2Model ----
(***************************************************************************)
(* Session lifecycle of the honeypot API (honeypot_api/app): the POST      *)
(* handler honeypot_endpoint, the background callback wrapper it           *)
(* schedules, the two session stores, the completion rule and the          *)
(* extraction / scoring steps the handler runs on each message.            *)
(*                                                                         *)
(* One session id is modelled: every session is an independent entry of    *)
(* the store.  Time is the UTC clock in seconds; naive local timestamps    *)
(* (datetime.now()) are the clock shifted by the server's UTC offset.      *)
(* Scores are in hundredths (0.65 is 65).                                  *)
(*                                                                         *)
(* The extractor and the scorer are also modelled on their own, computed   *)
(* character by character on sample texts (ExtractSpec,                    *)
(* ExtractorCallsSpec, ScoreSpec), and the history reconciler on sample    *)
(* transcripts (ReconcileSpec).                                            *)
(***************************************************************************)
EXTENDS Integers, Sequences, FiniteSets, TLC

\* ------------------------------------------------------------------ bounds
\* Requests the environment sends to the session in a conversation with
\* arbitrary messages (Spec).
MaxRequests == 2
\* The same for a conversation that meets the completion rule from its
\* first message on (RetrySpec).
MaxRetryRequests == 4
MaxSample == 2
\* Calls of the extractor in a sequence of calls (ExtractorCallsSpec).
MaxCalls == 3
\* Requests of a conversation whose caller sends no history.
MaxTurnRequests == 8

\* ------------------------------------------------------- program constants
RetryDelaySeconds == 60
TimeLimitSeconds == 300
RetryThreshold == 3
MinTurnsWithIntel == 4
MaxTurns == 8
ScamThreshold == 65
HistoryMargin == 10
HistoryCap == 30
CallbackAttempts == 2

Requests ==
    1..(IF MaxTurnRequests > MaxRetryRequests /\ MaxTurnRequests > MaxRequests
        THEN MaxTurnRequests
        ELSE IF MaxRequests > MaxRetryRequests THEN MaxRequests
        ELSE MaxRetryRequests)
\* next_retry_at: None, as a time no clock reaches.
None == -1000000

\* The session stores get_store() can return (REDIS_URL unset / set).
StoreKinds == {"memory", "redis"}

\* The server's UTC offset in seconds (datetime.now() is local and naive):
\* a server on UTC and one on UTC+05:30.
TzOffsets == {0, 19800}

\* ---------------------------------------------------------------- messages
\* The message texts of the model: a greeting, a keyword scam message, a
\* message carrying a UPI handle, and the agent's reply.
TxtHello == "Hello"
TxtKyc == "URGENT: verify your KYC, your account is blocked"
TxtUpi == "pay to name@okicici"
TxtReply == "Ok checking one minute..."
\* The greeting as another sender of the same conversation may spell it.
TxtShout == " HELLO "
\* A message with two high-risk keywords: 0.44 on its own.
TxtOtp == "Please verify your otp"
\* A scam message that carries a UPI handle.
TxtPay == "URGENT: verify your KYC, pay to name@okicici"
\* Agent._fallback_reply: random.choice of these.
fallbacks ==
    <<"Hello? I am not understanding properly. Can you explain correctly?",
      "My internet is slow, message is not loading fully. Please wait.",
      "Ok checking one minute...",
      "Where to click? I am confused.",
      "Sir, my son is calling, I will reply in 5 mins.",
      "Payment is failing repeatedly. What is UPI ID properly?",
      "Bank server down I think. Do you have other account?">>

Msg(sender, text, ts, aware) ==
    [sender |-> sender, text |-> text, ts |-> ts, aware |-> aware]

EmptyIntel ==
    [upi |-> {}, bank |-> {}, links |-> {}, phones |-> {}, keywords |-> {}]

\* Extractor.extract_from_text on the texts of the model, tabulated for the
\* session lifecycle; on these texts it is what Extractor_extract_from_text
\* below computes.
extract_from_text(text) ==
    CASE text = TxtKyc ->
           [EmptyIntel EXCEPT !.keywords = {"urgent", "verify", "blocked", "kyc"}]
      [] text = TxtUpi -> [EmptyIntel EXCEPT !.upi = {"name@okicici"}]
      [] text = TxtOtp -> [EmptyIntel EXCEPT !.keywords = {"verify", "otp"}]
      [] text = TxtPay ->
           [EmptyIntel EXCEPT !.upi = {"name@okicici"},
                              !.keywords = {"urgent", "verify", "kyc"}]
      [] OTHER -> EmptyIntel

IntelUnion(a, b) ==
    [k \in DOMAIN a |-> a[k] \cup b[k]]

\* Extractor.extract_from_messages: the five extractors on the space-joined
\* texts; on the texts of the model no match spans two messages.
RECURSIVE extract_from_messages(_)
extract_from_messages(msgs) ==
    IF msgs = <<>> THEN EmptyIntel
    ELSE IntelUnion(extract_from_text(Head(msgs).text),
                    extract_from_messages(Tail(msgs)))

\* -------------------------------------------------------------------- text
\* Python str and re on the texts of the model.  A text is a string; its
\* characters are read with Len, SubSeq and \o.
LowerLetters == "abcdefghijklmnopqrstuvwxyz"
UpperLetters == "ABCDEFGHIJKLMNOPQRSTUVWXYZ"
DigitChars == "0123456789"

CharsOf(s) == {SubSeq(s, i, i) : i \in 1..Len(s)}
Letters == CharsOf(LowerLetters) \cup CharsOf(UpperLetters)
\* \d
Digits == CharsOf(DigitChars)
\* \w
WordChars == Letters \cup Digits \cup {"_"}
\* \s
Whitespace == {" ", "\t", "\n"}

\* text[i] (1-based), "" outside the text.
At(s, i) == IF i \in 1..Len(s) THEN SubSeq(s, i, i) ELSE ""

\* text[i:] and text[i:j] (1-based, inclusive, clamped to the text).
From(s, i) == IF i > Len(s) THEN "" ELSE SubSeq(s, i, Len(s))
Slice(s, i, j) ==
    LET a == IF i < 1 THEN 1 ELSE i
        b == IF j > Len(s) THEN Len(s) ELSE j
    IN  IF b < a THEN "" ELSE SubSeq(s, a, b)

\* \b between text[i-1] and text[i].
WordBoundary(s, i) == (At(s, i - 1) \in WordChars) # (At(s, i) \in WordChars)

\* The length of the longest run of characters of a class that starts at i.
RECURSIVE RunLen(_, _, _)
RunLen(s, i, class) ==
    IF At(s, i) \in class THEN 1 + RunLen(s, i + 1, class) ELSE 0

\* str.startswith at position i.
StartsWithAt(s, i, prefix) ==
    /\ i + Len(prefix) - 1 <= Len(s)
    /\ Slice(s, i, i + Len(prefix) - 1) = prefix

\* sub in text.
Contains(s, sub) == \E i \in 1..(Len(s) + 1) : StartsWithAt(s, i, sub)

lower_char(c) ==
    IF c \in CharsOf(UpperLetters)
    THEN LET k == CHOOSE i \in 1..Len(UpperLetters) : At(UpperLetters, i) = c
         IN  At(LowerLetters, k)
    ELSE c

\* str.lower()
RECURSIVE lower(_)
lower(s) ==
    IF Len(s) <= 1 THEN lower_char(s)
    ELSE lower(Slice(s, 1, Len(s) \div 2)) \o lower(From(s, Len(s) \div 2 + 1))

\* str.rstrip(chars)
RECURSIVE rstrip(_, _)
rstrip(s, chars) ==
    IF s # "" /\ At(s, Len(s)) \in chars
    THEN rstrip(Slice(s, 1, Len(s) - 1), chars)
    ELSE s

\* str.lstrip(chars)
RECURSIVE lstrip(_, _)
lstrip(s, chars) ==
    IF s # "" /\ At(s, 1) \in chars THEN lstrip(From(s, 2), chars) ELSE s

\* str.strip().lower() on the texts of the model.
strip_lower(text) ==
    CASE text = TxtHello -> "hello"
      [] text = TxtShout -> "hello"
      [] text = TxtKyc -> "urgent: verify your kyc, your account is blocked"
      [] text = TxtUpi -> "pay to name@okicici"
      [] text = TxtReply -> "ok checking one minute..."
      [] text = TxtOtp -> "please verify your otp"
      [] OTHER -> lower(rstrip(lstrip(text, Whitespace), Whitespace))

\* The characters of a class, in order: re.sub of the others by "".
RECURSIVE Keep(_, _)
Keep(s, class) ==
    IF s = "" THEN ""
    ELSE (IF Head(s) \in class THEN Head(s) ELSE "") \o Keep(Tail(s), class)

\* The index of the first occurrence of a character, 0 when there is none.
RECURSIVE IndexFrom(_, _, _)
IndexFrom(s, ch, i) ==
    IF i > Len(s) THEN 0
    ELSE IF At(s, i) = ch THEN i ELSE IndexFrom(s, ch, i + 1)

\* text.count(ch)
RECURSIVE CountChar(_, _)
CountChar(s, ch) ==
    IF s = "" THEN 0
    ELSE (IF Head(s) = ch THEN 1 ELSE 0) + CountChar(Tail(s), ch)

\* --------------------------------------------------------------- extractor
\* The five extractors of Extractor, computed on any text as the regular
\* expressions of extraction.py match it.
\* upi_pattern [a-zA-Z0-9._-]+@[a-zA-Z0-9.-]{2,}
UpiLocalChars == Letters \cup Digits \cup {".", "_", "-"}
UpiDomainChars == Letters \cup Digits \cup {".", "-"}

\* upi_pattern.findall(text[i:]): leftmost, greedy, non-overlapping.
RECURSIVE upi_findall(_, _)
upi_findall(text, i) ==
    IF i > Len(text) THEN {}
    ELSE LET n == RunLen(text, i, UpiLocalChars)
             d == RunLen(text, i + n + 1, UpiDomainChars)
         IN  IF n >= 1 /\ At(text, i + n) = "@" /\ d >= 2
             THEN {Slice(text, i, i + n + d)}
                  \cup upi_findall(text, i + n + d + 1)
             ELSE upi_findall(text, i + 1)

email_providers ==
    {"gmail", "yahoo", "outlook", "hotmail", "icloud", "protonmail", "zoho",
     "yandex", "live"}

allowlist_psps ==
    {"ybl", "okaxis", "okhdfcbank", "okicici", "paytm", "axl", "sbi", "icici",
     "hdfc", "kotak", "upi", "apl", "ibl", "airtel", "jio"}

\* c.lower().strip() and re.sub(r'[.\-]$', '', c): one trailing character.
upi_clean(c) ==
    LET l == rstrip(lstrip(lower(c), Whitespace), Whitespace)
    IN  IF At(l, Len(l)) \in {".", "-"} THEN Slice(l, 1, Len(l) - 1) ELSE l

\* parts[1] of c.split('@') and its part before the first dot.
upi_domain(c) == From(c, IndexFrom(c, "@", 1) + 1)
first_label(domain) ==
    LET k == IndexFrom(domain, ".", 1)
    IN  IF k = 0 THEN domain ELSE Slice(domain, 1, k - 1)

\* The filter of extract_upi without the e-mail provider check.
upi_valid_no_provider_check(c) ==
    /\ CountChar(c, "@") = 1
    /\ \/ upi_domain(c) \in allowlist_psps
       \/ "." \notin CharsOf(upi_domain(c)) /\ Len(upi_domain(c)) <= 12

upi_valid(c) ==
    /\ CountChar(c, "@") = 1
    /\ first_label(upi_domain(c)) \notin email_providers
    /\ \/ upi_domain(c) \in allowlist_psps
       \/ "." \notin CharsOf(upi_domain(c)) /\ Len(upi_domain(c)) <= 12

extract_upi(text) ==
    {c \in {upi_clean(x) : x \in upi_findall(text, 1)} : upi_valid(c)}

\* [6789]\d{9}\b at position i.
MobileAt(text, i) ==
    /\ At(text, i) \in {"6", "7", "8", "9"}
    /\ RunLen(text, i + 1, Digits) >= 9
    /\ WordBoundary(text, i + 10)

\* bank_account_pattern \b(?![6789]\d{9}\b)\d{9,18}\b at position i: the
\* length of the match, 0 when there is none.  The closing \b holds only at
\* the end of the digit run.
bank_match(text, i) ==
    LET n == RunLen(text, i, Digits)
    IN  IF /\ WordBoundary(text, i)
           /\ ~MobileAt(text, i)
           /\ n >= 9 /\ n <= 18
           /\ WordBoundary(text, i + n)
        THEN n ELSE 0

RECURSIVE bank_findall(_, _)
bank_findall(text, i) ==
    IF i > Len(text) THEN {}
    ELSE LET n == bank_match(text, i)
         IN  IF n > 0
             THEN {Slice(text, i, i + n - 1)} \cup bank_findall(text, i + n)
             ELSE bank_findall(text, i + 1)

extract_bank_accounts(text) == bank_findall(text, 1)

\* phone_pattern (?:\+91[\-\s]?)?[6789]\d{9}\b at position i: the length of
\* the match, 0 when there is none.  The prefix is tried first, with its
\* separator first.
phone_match(text, i) ==
    IF StartsWithAt(text, i, "+91") /\ At(text, i + 3) \in {"-"} \cup Whitespace
       /\ MobileAt(text, i + 4)
    THEN 14
    ELSE IF StartsWithAt(text, i, "+91") /\ MobileAt(text, i + 3)
    THEN 13
    ELSE IF MobileAt(text, i) THEN 10 ELSE 0

RECURSIVE phone_findall(_, _)
phone_findall(text, i) ==
    IF i > Len(text) THEN {}
    ELSE LET n == phone_match(text, i)
         IN  IF n > 0
             THEN {Slice(text, i, i + n - 1)} \cup phone_findall(text, i + n)
             ELSE phone_findall(text, i + 1)

\* The digits of a match without the country code added: the variant C23
\* rules out.
phone_normalize_digits_only(m) == Keep(m, Digits)

\* The normalisation of one match: the digits, and the +91 / + prefix.
phone_normalize(m) ==
    LET clean == Keep(m, Digits)
    IN  IF Len(clean) > 10 /\ StartsWithAt(clean, 1, "91") THEN "+" \o clean
        ELSE IF Len(clean) = 10 THEN "+91" \o clean
        ELSE clean

extract_phone_numbers(text) ==
    {phone_normalize(m) : m \in phone_findall(text, 1)}

\* re.findall(r'https?://\S+', text[i:])
url_match(text, i) ==
    LET p == IF StartsWithAt(text, i, "https://") THEN 8
             ELSE IF StartsWithAt(text, i, "http://") THEN 7 ELSE 0
        n == RunLen(text, i + p, (CharsOf(text) \ Whitespace))
    IN  IF p > 0 /\ n >= 1 THEN p + n ELSE 0

RECURSIVE url_findall(_, _)
url_findall(text, i) ==
    IF i > Len(text) THEN {}
    ELSE LET n == url_match(text, i)
         IN  IF n > 0
             THEN {Slice(text, i, i + n - 1)} \cup url_findall(text, i + n)
             ELSE url_findall(text, i + 1)

\* shortener_pattern \b(?:bit\.ly|tinyurl\.com|t\.co|rb\.gy)/[a-zA-Z0-9_-]+
\* with re.IGNORECASE.
shortener_domains == <<"bit.ly", "tinyurl.com", "t.co", "rb.gy">>
ShortenerPathChars == Letters \cup Digits \cup {"_", "-"}

shortener_match(text, i) ==
    LET hits == {k \in DOMAIN shortener_domains :
                    lower(Slice(text, i, i + Len(shortener_domains[k])))
                    = shortener_domains[k] \o "/"}
        k == CHOOSE k \in hits : \A j \in hits : k <= j
        p == Len(shortener_domains[k]) + 1
        n == RunLen(text, i + p, ShortenerPathChars)
    IN  IF WordBoundary(text, i) /\ hits # {} /\ n >= 1 THEN p + n ELSE 0

RECURSIVE shortener_findall(_, _)
shortener_findall(text, i) ==
    IF i > Len(text) THEN {}
    ELSE LET n == shortener_match(text, i)
         IN  IF n > 0
             THEN {Slice(text, i, i + n - 1)}
                  \cup shortener_findall(text, i + n)
             ELSE shortener_findall(text, i + 1)

\* strip_chars = ').,;!?"'
strip_chars == {")", ".", ",", ";", "!", "?", "\""}

extract_urls(text) ==
    {rstrip(u, strip_chars) : u \in url_findall(text, 1)}
    \cup {"https://" \o rstrip(s, strip_chars) : s \in shortener_findall(text, 1)}

suspicious_keywords ==
    {"urgent", "verify", "blocked", "kyc", "otp", "refund", "reward",
     "winner", "lottery", "click here", "update pan", "suspend",
     "electricity", "disconnect", "prize", "gift", "loan", "investment"}

extract_keywords(text) ==
    {kw \in suspicious_keywords : Contains(lower(text), kw)}

\* Extractor.extract_from_text, computed from the five extractors.
Extractor_extract_from_text(text) ==
    [upi |-> extract_upi(text),
     bank |-> extract_bank_accounts(text),
     links |-> extract_urls(text),
     phones |-> extract_phone_numbers(text),
     keywords |-> extract_keywords(text)]

\* ------------------------------------------------------------------ scorer
\* What ScamDetector.calculate_text_score finds in a text: the matched
\* high-risk and medium-risk keywords, the benign tokens, and the
\* extractor's URL / phone / UPI hits.
NoFeatures ==
    [high |-> {}, medium |-> {}, negative |-> {},
     url |-> FALSE, phone |-> FALSE, upi |-> FALSE]

TextFeatures(text) ==
    CASE text = TxtKyc ->
           [NoFeatures EXCEPT !.high = {"urgent", "verify", "kyc", "blocked"},
                              !.medium = {"account"}]
      [] text = TxtUpi -> [NoFeatures EXCEPT !.upi = TRUE]
      [] text = TxtOtp -> [NoFeatures EXCEPT !.high = {"verify", "otp"}]
      [] text = TxtPay ->
           [NoFeatures EXCEPT !.high = {"urgent", "verify", "kyc"}, !.upi = TRUE]
      [] text = TxtHello -> [NoFeatures EXCEPT !.negative = {"hello"}]
      [] text = TxtReply -> [NoFeatures EXCEPT !.negative = {"ok"}]
      [] text = fallbacks[1] -> [NoFeatures EXCEPT !.negative = {"hello"}]
      [] text = fallbacks[4] -> [NoFeatures EXCEPT !.medium = {"click"}]
      [] text = fallbacks[6] -> [NoFeatures EXCEPT !.medium = {"upi id"}]
      [] text = fallbacks[7] -> [NoFeatures EXCEPT !.medium = {"bank", "account"}]
      [] OTHER -> NoFeatures

\* The features of "\n".join(texts): each keyword is matched once.
RECURSIVE JoinedFeatures(_)
JoinedFeatures(msgs) ==
    IF msgs = <<>> THEN NoFeatures
    ELSE LET a == TextFeatures(Head(msgs).text)
             b == JoinedFeatures(Tail(msgs))
         IN  [high |-> a.high \cup b.high,
              medium |-> a.medium \cup b.medium,
              negative |-> a.negative \cup b.negative,
              url |-> a.url \/ b.url,
              phone |-> a.phone \/ b.phone,
              upi |-> a.upi \/ b.upi]

Min(a, b) == IF a <= b THEN a ELSE b
Max(a, b) == IF a >= b THEN a ELSE b

\* ScamDetector.calculate_text_score: (score, strong evidence, any evidence).
calculate_text_score(f) ==
    LET keyword_score == 22 * Cardinality(f.high) + 10 * Cardinality(f.medium)
        structural == (IF f.url THEN 22 ELSE 0) + (IF f.phone THEN 15 ELSE 0)
                      + (IF f.upi THEN 18 ELSE 0)
        strong == f.url \/ f.phone \/ f.upi \/ f.high # {}
        s == Min(keyword_score, 70) + structural
             - (IF strong THEN 0 ELSE 15 * Cardinality(f.negative))
    IN  [score |-> Max(0, s), strong |-> strong,
         any |-> strong \/ keyword_score > 0]

\* check_scam from total_score on without the cap at 0.99: the variant C26
\* rules out.
scam_decision_uncapped(cur, his) ==
    LET total2 == 2 * cur.score + his.score
    IN  [is_scam |-> \/ cur.strong /\ total2 >= 2 * ScamThreshold
                     \/ his.any /\ total2 >= 2 * (ScamThreshold + HistoryMargin),
         total2 |-> total2]

\* check_scam from total_score on with the history rule at the plain
\* threshold: the variant C29 rules out.
scam_decision_no_margin(cur, his) ==
    LET total2 == Min(2 * cur.score + his.score, 2 * 99)
    IN  [is_scam |-> \/ cur.strong /\ total2 >= 2 * ScamThreshold
                     \/ his.any /\ total2 >= 2 * ScamThreshold,
         total2 |-> total2]

\* ScamDetector.check_scam from total_score on: the decision and the
\* confidence on the two scores.  total2 is total_score doubled, to keep
\* 0.5 * score_history exact.
scam_decision(cur, his) ==
    LET total2 == Min(2 * cur.score + his.score, 2 * 99)
    IN  [is_scam |-> \/ cur.strong /\ total2 >= 2 * ScamThreshold
                     \/ his.any /\ total2 >= 2 * (ScamThreshold + HistoryMargin),
         total2 |-> total2]

\* ScamDetector.check_scam: the decision on (current text, history text).
check_scam(message_text, history) ==
    scam_decision(calculate_text_score(TextFeatures(message_text)),
                  calculate_text_score(JoinedFeatures(history))).is_scam

\* The scorer computed on any text, as _normalize_text, _tokenize and the
\* keyword loops of calculate_text_score work.
high_risk_keywords ==
    <<"otp", "cvv", "kyc", "verify", "blocked", "lottery",
      "prize", "winner", "urgent", "urgently", "immediate", "immediately",
      "suspend", "suspended", "electricity", "disconnect", "customs", "gift",
      "turant", "jaldi", "abhi", "warna", "aaj", "band ho jayega",
      "account band", "freeze", "frozen",
      "otp bhejo", "otp send", "kyc update", "verify karo", "link kholo",
      "verify account", "verify your account", "update kyc",
      "refund", "cashback", "reward", "inaam", "prize", "collect request">>

medium_risk_keywords ==
    <<"update", "pan", "aadhar", "link", "click",
      "manager", "bank", "account", "credit", "debit",
      "upi id", "paise">>

negative_keywords ==
    <<"thank you", "ok", "yes", "no", "hello", "hi",
      "meeting", "project", "assignment">>

shorteners ==
    {"bit.ly/", "tinyurl.com/", "t.co/", "rb.gy/", "is.gd/", "goo.gl/"}

\* The separators of the obfuscation pattern [.\-_ ]*
ObfuscationSeparators == {".", "-", "_", " "}

\* re.sub(r"[.\-_ ]*".join(chars), word, text[i:]) for a three-letter word.
RECURSIVE deobfuscate(_, _, _)
deobfuscate(text, word, i) ==
    IF i > Len(text) THEN ""
    ELSE LET j == i + 1 + RunLen(text, i + 1, ObfuscationSeparators)
             k == j + 1 + RunLen(text, j + 1, ObfuscationSeparators)
         IN  IF /\ At(text, i) = At(word, 1)
                /\ At(text, j) = At(word, 2)
                /\ At(text, k) = At(word, 3)
             THEN word \o deobfuscate(text, word, k + 1)
             ELSE At(text, i) \o deobfuscate(text, word, i + 1)

\* str.replace(old, new) on text[i:]
RECURSIVE replace(_, _, _, _)
replace(text, old, new, i) ==
    IF i > Len(text) THEN ""
    ELSE IF StartsWithAt(text, i, old)
         THEN new \o replace(text, old, new, i + Len(old))
         ELSE At(text, i) \o replace(text, old, new, i + 1)

\* re.sub(r'\s+', ' ', text[i:])
RECURSIVE collapse_whitespace(_, _)
collapse_whitespace(text, i) ==
    IF i > Len(text) THEN ""
    ELSE IF At(text, i) \in Whitespace
         THEN " " \o collapse_whitespace(text, i + RunLen(text, i, Whitespace))
         ELSE At(text, i) \o collapse_whitespace(text, i + 1)

\* _normalize_text without the loop over otp, kyc and cvv and without the
\* replacement of 0tp: the variant C28 rules out.
normalize_text_plain(text) ==
    LET c == collapse_whitespace(lower(text), 1)
    IN  rstrip(lstrip(c, Whitespace), Whitespace)

\* ScamDetector._normalize_text
normalize_text(text) ==
    LET otp == deobfuscate(lower(text), "otp", 1)
        kyc == deobfuscate(otp, "kyc", 1)
        cvv == deobfuscate(kyc, "cvv", 1)
        c == collapse_whitespace(replace(cvv, "0tp", "otp", 1), 1)
    IN  rstrip(lstrip(c, Whitespace), Whitespace)

\* re.findall(r'\b\w+\b', text[i:]): the maximal runs of word characters.
RECURSIVE word_runs(_, _)
word_runs(text, i) ==
    IF i > Len(text) THEN {}
    ELSE LET n == RunLen(text, i, WordChars)
         IN  IF n > 0
             THEN {Slice(text, i, i + n - 1)} \cup word_runs(text, i + n)
             ELSE word_runs(text, i + 1)

\* ScamDetector._tokenize
tokenize(text) == word_runs(lower(text), 1)

\* The keyword test of the two loops without the token check: the variant
\* C27 rules out.
keyword_matched_substring(kw, normalized, tokens) == Contains(normalized, kw)

\* `kw in normalized` and (`' ' in kw` or `kw in tokens`)
keyword_matched(kw, normalized, tokens) ==
    Contains(normalized, kw) /\ (" " \in CharsOf(kw) \/ kw \in tokens)

\* What calculate_text_score finds in a text.  The keywords are the entries
\* of the lists by position: an entry listed twice is counted twice.
ScamDetector_features(text) ==
    LET normalized == normalize_text(text)
        tokens == tokenize(normalized)
    IN  [high |-> {k \in DOMAIN high_risk_keywords :
                     keyword_matched(high_risk_keywords[k], normalized, tokens)},
         medium |-> {k \in DOMAIN medium_risk_keywords :
                     keyword_matched(medium_risk_keywords[k], normalized, tokens)},
         negative |-> {k \in DOMAIN negative_keywords :
                     negative_keywords[k] \in tokens},
         url |-> \/ extract_urls(text) # {}
                 \/ \E s \in shorteners : Contains(normalized, s),
         phone |-> extract_phone_numbers(text) # {},
         upi |-> extract_upi(text) # {}]

\* matched_keywords of calculate_text_score
matched_keywords(f) ==
    {high_risk_keywords[k] : k \in f.high}
    \cup {medium_risk_keywords[k] : k \in f.medium}

\* ScamDetector.check_scam on two texts: what it returns, and the two
\* results of calculate_text_score it is computed from.
ScamDetector_check_scam(message_text, history_text) ==
    LET fc == ScamDetector_features(message_text)
        cur == calculate_text_score(fc)
        his == calculate_text_score(ScamDetector_features(history_text))
        d == scam_decision(cur, his)
    IN  [is_scam |-> d.is_scam, total2 |-> d.total2,
         normalized |-> normalize_text(message_text),
         matched |-> matched_keywords(fc), features |-> fc,
         cur |-> cur, his |-> his]

\* ------------------------------------------------------ history reconciler
\* The caller's conversationHistory of n exchanges: n counterpart turns and
\* n agent turns with distinct offset-less timestamps before the session.
PlatformHistory(n) ==
    [k \in 1..(2 * n) |->
        Msg(IF k % 2 = 1 THEN "scammer" ELSE "user",
            IF k % 2 = 1 THEN TxtHello ELSE TxtReply, k - 100, FALSE)]

\* conversation_history_raw[:30]: at most 30 of the caller's messages are
\* looked at.
CapHistory(msgs) == SubSeq(msgs, 1, Min(Len(msgs), HistoryCap))

\* get_key: (sender, trimmed lower-cased text, ISO timestamp); the ISO form
\* of a timestamp with an offset differs from every offset-less one.
\* get_key without the normalisation of the text: the variant C15 rules
\* out.
get_key_raw(m) == <<m.sender, m.text, m.ts, m.aware>>

get_key(m) == <<m.sender, strip_lower(m.text), m.ts, m.aware>>

RECURSIVE Dedupe(_, _)
Dedupe(msgs, seen) ==
    IF msgs = <<>> THEN <<>>
    ELSE IF get_key(Head(msgs)) \in seen
         THEN Dedupe(Tail(msgs), seen)
         ELSE <<Head(msgs)>> \o Dedupe(Tail(msgs), seen \cup {get_key(Head(msgs))})

\* A sort that puts a message before the messages of its own timestamp: the
\* variant C30 rules out.
RECURSIVE InsertSorted_before_equal(_, _)
InsertSorted_before_equal(sorted, m) ==
    IF sorted = <<>> \/ sorted[Len(sorted)].ts < m.ts
    THEN Append(sorted, m)
    ELSE Append(InsertSorted_before_equal(SubSeq(sorted, 1, Len(sorted) - 1), m),
                sorted[Len(sorted)])

\* list.sort(key=timestamp): stable, ascending.  A message goes behind
\* every message whose timestamp is not later than its own.
RECURSIVE InsertSorted(_, _)
InsertSorted(sorted, m) ==
    IF sorted = <<>> \/ sorted[Len(sorted)].ts <= m.ts
    THEN Append(sorted, m)
    ELSE Append(InsertSorted(SubSeq(sorted, 1, Len(sorted) - 1), m),
                sorted[Len(sorted)])

RECURSIVE SortByTimestamp(_)
SortByTimestamp(msgs) ==
    IF msgs = <<>> THEN <<>>
    ELSE InsertSorted(SortByTimestamp(SubSeq(msgs, 1, Len(msgs) - 1)),
                      msgs[Len(msgs)])

\* Comparing a timestamp that carries an offset with one that does not
\* raises TypeError inside the sort.
SortRaises(msgs) ==
    /\ \E i \in 1..Len(msgs) : msgs[i].aware
    /\ \E i \in 1..Len(msgs) : ~msgs[i].aware

\* A stored timestamp datetime.fromisoformat rejects.
Unparseable == None - 1

\* Lines 53-61: Sender(m["sender"]), datetime.fromisoformat(m["timestamp"])
\* and Message(...) go through for a stored turn.
Convertible(m) ==
    /\ {"sender", "text", "ts"} \subseteq DOMAIN m
    /\ m.sender \in {"scammer", "user"}
    /\ m.ts # Unparseable

\* The conversion loop leaving at the first turn that raises: the variant
\* C35 rules out.
RECURSIVE internal_msgs_until_malformed(_)
internal_msgs_until_malformed(internal) ==
    IF internal = <<>> \/ ~Convertible(Head(internal)) THEN <<>>
    ELSE <<Head(internal)>> \o internal_msgs_until_malformed(Tail(internal))

\* The conversion loop: a turn that raises is skipped (`continue`).
internal_msgs(internal) == SelectSeq(internal, Convertible)

\* get_combined_history: the caller's messages first, then the recorded
\* turns that convert, without repeated keys, sorted by timestamp.
get_combined_history(internal, platform_history) ==
    LET combined == Dedupe(platform_history \o internal_msgs(internal), {})
    IN  IF SortRaises(combined)
        THEN [ok |-> FALSE, msgs |-> <<>>]
        ELSE [ok |-> TRUE, msgs |-> SortByTimestamp(combined)]

\* -------------------------------------------------------- completion rule
CountSender(msgs, sender) ==
    Cardinality({i \in 1..Len(msgs) : msgs[i].sender = sender})

logical_turns(msgs) ==
    Min(CountSender(msgs, "scammer"), CountSender(msgs, "user") + 1)

\* calculate_engagement_duration: started_at is the offset-less local time
\* of creation, read as if it were UTC, against the UTC clock.
calculate_engagement_duration(started_at, utc_now) ==
    IF started_at > utc_now THEN 0 ELSE utc_now - started_at

is_intel_found(extracted) ==
    \/ extracted.upiIds # {}
    \/ extracted.bankAccounts # {}
    \/ extracted.phishingLinks # {}

\* check_completion without its first line (the scamDetected test): the
\* variant C5 rules out.
check_completion_any(session, combined_history, utc_now) ==
    LET duration == calculate_engagement_duration(session.started_at, utc_now)
        turns == logical_turns(combined_history)
    IN  IF is_intel_found(session.extractedIntelligence)
           /\ turns >= MinTurnsWithIntel THEN TRUE
        ELSE IF turns >= MaxTurns THEN TRUE
        ELSE IF duration >= TimeLimitSeconds THEN TRUE
        ELSE FALSE

\* check_completion asking for more than 4 turns with intelligence: the
\* variant C6 rules out.
check_completion_late(session, combined_history, utc_now) ==
    IF ~session.scamDetected THEN FALSE
    ELSE LET duration == calculate_engagement_duration(session.started_at, utc_now)
             turns == logical_turns(combined_history)
         IN  IF is_intel_found(session.extractedIntelligence)
                /\ turns > MinTurnsWithIntel THEN TRUE
             ELSE IF turns >= MaxTurns THEN TRUE
             ELSE IF duration >= TimeLimitSeconds THEN TRUE
             ELSE FALSE

check_completion(session, combined_history, utc_now) ==
    IF ~session.scamDetected THEN FALSE
    ELSE LET duration == calculate_engagement_duration(session.started_at, utc_now)
             turns == logical_turns(combined_history)
         IN  IF is_intel_found(session.extractedIntelligence)
                /\ turns >= MinTurnsWithIntel THEN TRUE
             ELSE IF turns >= MaxTurns THEN TRUE
             ELSE IF duration >= TimeLimitSeconds THEN TRUE
             ELSE FALSE

\* ------------------------------------------------------------------- state
VARIABLES
    storeKind,    \* which SessionStore get_store() returned
    tzOffset,     \* the server's UTC offset
    clock,        \* UTC time in seconds
    store,        \* the store's contents: session id -> session dict
    reqs,         \* per request: where its handler / background task stands
    started,      \* requests received so far
    dispatches,   \* background_tasks.add_task calls so far
    delivered,    \* some callback reported success
    failures,     \* callbacks that reported failure
    coolUntil,    \* the latest next_retry_at a failed callback has set
    event         \* what the last step did

vars == <<storeKind, tzOffset, clock, store, reqs, started,
          dispatches, delivered, failures, coolUntil, event>>

IntelKeys ==
    {"bankAccounts", "upiIds", "phishingLinks", "phoneNumbers", "suspiciousKeywords"}

\* ext_key_map of the handler: session category -> extractor key.
ext_key_map ==
    [bankAccounts |-> "bank", upiIds |-> "upi", phishingLinks |-> "links",
     phoneNumbers |-> "phones", suspiciousKeywords |-> "keywords"]

\* The session dict the handler creates for an unseen id.
NewSession(now) ==
    [started_at |-> now,
     totalMessagesExchanged |-> 0,
     scamDetected |-> FALSE,
     callback_sent |-> FALSE,
     callback_attempts |-> 0,
     callback_in_progress |-> FALSE,
     next_retry_at |-> None,
     extractedIntelligence |-> [k \in IntelKeys |-> {}],
     internalHistory |-> <<>>,
     agentNotes |-> "",
     last_agent_reply |-> ""]

\* datetime.now(): local and offset-less.
LocalNow == clock + tzOffset

\* A request's local variables while its handler or its task is pending.
\* With the in-memory store `session` is the stored dict itself, so the
\* local copy is kept only for the copy-returning store.
\* The session of the conversation the model follows.
SessionId == "s1"

\* f"session-{request_id[:8]}": the id given to a request without a usable
\* sessionId; the request id is a fresh uuid.
GeneratedId(i) == "session-" \o ToString(i)

NoResponse == [code |-> 0, status |-> "", reply |-> ""]

NoLocals ==
    [pc |-> "idle", session_id |-> SessionId, session |-> NewSession(0),
     now |-> 0, platform |-> 0, response |-> NoResponse]

\* SimpleResponse(status="success", reply=...), answered with HTTP 200.
SimpleResponse(reply) == [code |-> 200, status |-> "success", reply |-> reply]

\* InMemorySessionStore.get_session / RedisSessionStore.get_session.
get_session(st, session_id) ==
    IF session_id \in DOMAIN st THEN st[session_id] ELSE NewSession(0)

\* save_session: _store[session_id] = data / redis SET.
save_session(st, session_id, data) ==
    [k \in DOMAIN st \cup {session_id} |-> IF k = session_id THEN data ELSE st[k]]

NoEvent ==
    [kind |-> "init", dispatched |-> FALSE, consulted |-> FALSE, error |-> "",
     posts |-> 0, sleeps |-> 0, platform_history |-> <<>>, combined |-> <<>>,
     extractor_raised |-> FALSE, scorer_raised |-> FALSE,
     session_id |-> SessionId, calls |-> <<>>]

\* No session has been saved.
EmptyStore == [k \in {} |-> NewSession(0)]

InitOf(kinds, offsets, stores) ==
    /\ storeKind \in kinds
    /\ tzOffset \in offsets
    /\ clock = 0
    /\ store \in stores
    /\ reqs = [i \in Requests |-> NoLocals]
    /\ started = 0
    /\ dispatches = 0
    /\ delivered = FALSE
    /\ failures = 0
    /\ coolUntil = None
    /\ event = NoEvent

\* A server whose local time is UTC.
Init == InitOf(StoreKinds, {0}, {EmptyStore})

\* ----------------------------------------------------------------- handler
\* dict.get(key, default) and dict[key] = value on a session dict.
Get(session, key, default) ==
    IF key \in DOMAIN session THEN session[key] ELSE default

Put(session, key, value) ==
    [k \in DOMAIN session \cup {key} |-> IF k = key THEN value ELSE session[k]]

\* Lines 306-309: the two keys the handler adds to a session stored without
\* them.
EnsureKeys(session) ==
    LET with_flag == IF "callback_in_progress" \in DOMAIN session THEN session
                     ELSE Put(session, "callback_in_progress", FALSE)
    IN  IF "next_retry_at" \in DOMAIN with_flag THEN with_flag
        ELSE Put(with_flag, "next_retry_at", None)

\* Lines 311-318: the incoming message is recorded as a counterpart turn.
AppendIncoming(session, text, ts, aware) ==
    [session EXCEPT !.internalHistory = Append(@, Msg("scammer", text, ts, aware)),
                    !.totalMessagesExchanged = @ + 1]

\* Lines 334-362: extraction from the incoming text and, when the transcript
\* is not empty, from the transcript; empty when the extractor raises.
\* An except clause that keeps what extract_from_text had found when the
\* extractor raised: the variant C16 rules out.
Extraction_partial(text, combined_history, extractor_raises) ==
    IF extractor_raises THEN extract_from_text(text)
    ELSE IF combined_history # <<>>
         THEN IntelUnion(extract_from_text(text),
                         extract_from_messages(combined_history))
         ELSE extract_from_text(text)

Extraction(text, combined_history, extractor_raises) ==
    IF extractor_raises THEN EmptyIntel
    ELSE IF combined_history # <<>>
         THEN IntelUnion(extract_from_text(text),
                         extract_from_messages(combined_history))
         ELSE extract_from_text(text)

\* Lines 373-381: union of the stored and the new items per category.
MergeIntel(current_intel, new_intel) ==
    [k \in IntelKeys |-> current_intel[k] \cup new_intel[ext_key_map[k]]]

\* Lines 386-399: the scorer is asked only while scamDetected is false and
\* can only set it; a scorer that raises leaves it alone.
\* The detection step without the `if not session["scamDetected"]` guard,
\* storing whatever the scorer says: the variant C7 rules out.
DetectScam_unguarded(session, text, combined_history, scorer_raises) ==
    ~scorer_raises /\ check_scam(text, combined_history)

DetectScam(session, text, combined_history, scorer_raises) ==
    IF session.scamDetected THEN TRUE
    ELSE ~scorer_raises /\ check_scam(text, combined_history)

\* Lines 420-427: the agent's reply is recorded as an agent turn.
AppendReply(session, reply, ts) ==
    [session EXCEPT !.internalHistory = Append(@, Msg("user", reply, ts, FALSE)),
                    !.totalMessagesExchanged = @ + 1,
                    !.last_agent_reply = reply]

\* Lines 436-439.
BuildNotes(session) ==
    [session EXCEPT !.agentNotes =
        IF is_intel_found(session.extractedIntelligence)
        THEN "Scam detected. High-value intelligence extracted. | nextReply"
        ELSE "Scam detected. | nextReply"]

\* Lines 444-451: `now` is the handler's datetime.now() of line 216.
can_retry(session, now) ==
    ~(session.next_retry_at # None /\ now < session.next_retry_at)

\* Lines 453-454.
ShouldDispatch(session, combined_history, now, utc_now) ==
    /\ session.scamDetected
    /\ ~session.callback_sent
    /\ ~session.callback_in_progress
    /\ can_retry(session, now)
    /\ check_completion(session, combined_history, utc_now)

Locals(pc, session_id, session, now, platform) ==
    [pc |-> pc, session_id |-> session_id,
     session |-> IF storeKind = "redis" THEN session ELSE NewSession(0),
     now |-> now, platform |-> platform, response |-> NoResponse]

\* The handler has returned `response`; `pc` tells whether a background task
\* is left to run.
Returned(pc, session_id, response) ==
    [NoLocals EXCEPT !.pc = pc, !.session_id = session_id, !.response = response]

\* Lines 444-495: completion check, dispatch of the background task, final
\* save and return.
CompleteAndReturn(i, session_id, session, combined_history, now, utc_now, stages, reply) ==
    LET dispatch == ShouldDispatch(session, combined_history, now, utc_now)
        final == IF dispatch
                 THEN [session EXCEPT !.callback_in_progress = TRUE]
                 ELSE session
    IN  /\ store' = save_session(store, session_id, final)
        /\ reqs' = [reqs EXCEPT ![i] =
                      Returned(IF dispatch THEN "callback" ELSE "done",
                               session_id, SimpleResponse(reply))]
        /\ dispatches' = dispatches + (IF dispatch THEN 1 ELSE 0)
        /\ event' = [stages EXCEPT !.kind = "return", !.dispatched = dispatch,
                                   !.session_id = session_id]

\* The outermost except (lines 497-507): the handler returns the fallback
\* reply; what was saved or changed in place stays.
\* A handler without the outermost except, the exception reaching the
\* client as an error response: the variant C17 rules out.
RaiseToOuterExcept_unhandled(i, session_id, saved, error) ==
    /\ store' = save_session(store, session_id, saved)
    /\ reqs' = [reqs EXCEPT ![i] =
                  Returned("done", session_id,
                           [code |-> 500, status |-> "error", reply |-> ""])]
    /\ dispatches' = dispatches
    /\ event' = [NoEvent EXCEPT !.kind = "except", !.error = error,
                                !.session_id = session_id]

RaiseToOuterExcept(i, session_id, saved, error) ==
    /\ store' = save_session(store, session_id, saved)
    /\ reqs' = [reqs EXCEPT ![i] =
                  Returned("done", session_id, SimpleResponse(TxtReply))]
    /\ dispatches' = dispatches
    /\ event' = [NoEvent EXCEPT !.kind = "except", !.error = error,
                                !.session_id = session_id]

\* The bodies of an authenticated POST: a JSON object with all fields, no
\* bytes, bytes that are not JSON, JSON that is not an object, an object
\* whose sessionId is missing, an object with only a sessionId, and an
\* object whose sessionId, message and conversationHistory have wrong types.
BodyKinds ==
    {"object", "empty", "malformed", "non_object", "no_session_id",
     "missing_message", "wrong_types"}

\* Lines 180-196: the dict the body is parsed to; {} without a JSON object.
payload_dict(body) ==
    IF body \in {"empty", "malformed", "non_object"} THEN "{}" ELSE body

\* Lines 219-246: the session id, the text, the timestamp and the history
\* the handler works with; a missing or wrongly typed field gets its
\* default (a generated id, "", datetime.now(), []).
NormalizedPayload(i, body, text, aware, platform) ==
    LET payload == payload_dict(body)
        no_id == payload \in {"{}", "no_session_id", "wrong_types"}
        no_message == payload \in {"{}", "missing_message", "wrong_types"}
    IN  [session_id |-> IF no_id THEN GeneratedId(i) ELSE SessionId,
         text |-> IF no_message THEN "" ELSE text,
         aware |-> IF no_message THEN FALSE ELSE aware,
         platform |-> IF no_message THEN 0 ELSE platform]

\* honeypot_endpoint from the session lookup (line 283) to the await of the
\* agent's reply (line 412) or, when no scam is detected, to its return.  The
\* request arrives `delay` seconds after the previous step.
ReceiveRequest(i, delay, body, body_text, body_aware, body_platform, extractor_raises, scorer_raises) ==
    LET utc_now == clock + delay
        now == utc_now + tzOffset
        payload == NormalizedPayload(i, body, body_text, body_aware, body_platform)
        session_id == payload.session_id
        text == payload.text
        aware == payload.aware
        platform == payload.platform
        session0 == IF session_id \in DOMAIN store
                    THEN store[session_id] ELSE NewSession(now)
        defaulted == EnsureKeys(session0)
        \* line 317: session["internalHistory"] raises KeyError without the key
        has_history == "internalHistory" \in DOMAIN defaulted
        session1 == AppendIncoming(defaulted, text,
                                   IF aware THEN utc_now ELSE now, aware)
        combined == get_combined_history(session1.internalHistory,
                                         CapHistory(PlatformHistory(platform)))
        session2 == [session1 EXCEPT !.extractedIntelligence =
                        MergeIntel(@, Extraction(text, combined.msgs, extractor_raises))]
        consulted == ~session2.scamDetected
        \* what the stages of lines 334-399 did
        stages == [NoEvent EXCEPT !.consulted = consulted,
                                  !.extractor_raised = extractor_raises,
                                  !.scorer_raised = consulted /\ scorer_raises]
        session3 == [session2 EXCEPT !.scamDetected =
                        DetectScam(session2, text, combined.msgs, scorer_raises)]
    IN  /\ i = started + 1
        /\ i \in Requests
        /\ reqs[i].pc = "idle"
        /\ started' = i
        /\ IF ~has_history
           THEN RaiseToOuterExcept(i, session_id,
                                   IF storeKind = "memory" THEN defaulted ELSE session0,
                                   "KeyError")
           ELSE IF ~combined.ok
           THEN RaiseToOuterExcept(i, session_id, session1, "TypeError")
           ELSE IF session3.scamDetected
           THEN /\ store' = save_session(store, session_id,
                               IF storeKind = "memory" THEN session3 ELSE session1)
                /\ reqs' = [reqs EXCEPT ![i] =
                              Locals("reply", session_id, session3, now, platform)]
                /\ dispatches' = dispatches
                /\ event' = [stages EXCEPT !.kind = "await",
                                           !.session_id = session_id]
           ELSE CompleteAndReturn(i, session_id, session3, combined.msgs, now,
                                  utc_now, stages, "")
        /\ clock' = utc_now
        /\ UNCHANGED <<storeKind, tzOffset, delivered, failures, coolUntil>>

\* settings.HONEYPOT_API_KEY, and what a request's x-api-key header can
\* hold: nothing, another key, the key.
HONEYPOT_API_KEY == "secret"

ApiKeys == {"", "wrong_key", HONEYPOT_API_KEY}

AuthFailedReply == "Authentication failed. Please check your API key."

\* An auth check that lets every request with a key through: the variant
\* C40 rules out.
authenticated_any_key(api_key) == api_key # ""

\* Line 205: `not api_key or api_key != settings.HONEYPOT_API_KEY` fails.
authenticated(api_key) == api_key # "" /\ api_key = HONEYPOT_API_KEY

\* Lines 204-210: the handler returns before it touches the store.
RejectRequest(i, delay) ==
    /\ i = started + 1
    /\ i \in Requests
    /\ reqs[i].pc = "idle"
    /\ started' = i
    /\ reqs' = [reqs EXCEPT ![i] =
                  Returned("done", SessionId, SimpleResponse(AuthFailedReply))]
    /\ event' = [NoEvent EXCEPT !.kind = "rejected"]
    /\ clock' = clock + delay
    /\ UNCHANGED <<storeKind, tzOffset, store, dispatches, delivered,
                   failures, coolUntil>>

\* honeypot_endpoint from its first line to the await of the agent's reply
\* or its return.
honeypot_endpoint(i, api_key, delay, inp) ==
    IF authenticated(api_key)
    THEN ReceiveRequest(i, delay, inp[1], inp[2], inp[3], inp[4], inp[5], inp[6])
    ELSE RejectRequest(i, delay)

\* honeypot_endpoint from the agent's reply (line 412) to its return.
ResumeWithReply(i, reply) ==
    LET session_id == reqs[i].session_id
        session == IF storeKind = "memory" THEN store[session_id] ELSE reqs[i].session
        session4 == AppendReply(session, reply, LocalNow)
        combined == get_combined_history(session4.internalHistory,
                                         CapHistory(PlatformHistory(reqs[i].platform)))
    IN  /\ reqs[i].pc = "reply"
        /\ IF ~combined.ok
           THEN RaiseToOuterExcept(i, session_id, session4, "TypeError")
           ELSE CompleteAndReturn(i, session_id, BuildNotes(session4),
                                  combined.msgs, reqs[i].now, clock, NoEvent, reply)
        /\ UNCHANGED <<storeKind, tzOffset, clock, started,
                       delivered, failures, coolUntil>>

\* ------------------------------------------------------------ agent reply
\* The longest reply safe_agent_reply returns as it is.
ReplyLimit == 500

\* s * n
RECURSIVE Repeat(_, _)
Repeat(s, n) ==
    IF n = 0 THEN ""
    ELSE LET half == Repeat(s, n \div 2)
         IN  half \o half \o (IF n % 2 = 1 THEN s ELSE "")

\* What agent.generate_reply can return: a reply, a reply between blanks,
\* nothing, blanks only, more than 500 characters.
GeneratedTexts ==
    {TxtReply, " Ok ", "", " \n", Repeat("a", ReplyLimit - 1) \o " b"}

\* What awaiting the generator under asyncio.wait_for can end in.
GeneratorOutcomes ==
    {[kind |-> "text", text |-> t] : t \in GeneratedTexts}
        \cup {[kind |-> k, text |-> ""] : k \in {"timeout", "raise"}}

\* str.strip()
strip(s) == rstrip(lstrip(s, Whitespace), Whitespace)

\* safe_agent_reply: the generator's reply, cut to 500 characters and
\* stripped; `fallback` (what agent._fallback_reply() picks) when the
\* generator timed out, raised or returned nothing but blanks.
safe_agent_reply(outcome, fallback) ==
    IF outcome.kind # "text" THEN fallback
    ELSE IF outcome.text = "" \/ strip(outcome.text) = "" THEN fallback
    ELSE strip(IF Len(outcome.text) > ReplyLimit
               THEN Slice(outcome.text, 1, ReplyLimit - 3) \o "..."
               ELSE outcome.text)

\* ------------------------------------------------------- callback sender
\* What one HTTP POST of the sender can end in: a 2xx response, another
\* response, httpx.HTTPError, any other exception.
Responses == {"success", "http_error", "transport_error", "exception"}

ResponseSeqs == [1..CallbackAttempts -> Responses]

\* The for loop of send_final_result_callback from iteration `attempt` on:
\* a successful response returns at once, everything else counts as a failed
\* attempt, followed by asyncio.sleep(0.2) unless it was the last one.
RECURSIVE AttemptLoop_through(_, _, _, _)
\* The loop without the early return of line 34: the variant C11 rules out.
AttemptLoop_through(responses, attempt, posts, sleeps) ==
    IF attempt >= CallbackAttempts
    THEN [outcome |-> IF \E k \in 1..CallbackAttempts : responses[k] = "success"
                      THEN "success" ELSE "failure",
          posts |-> posts, sleeps |-> sleeps]
    ELSE AttemptLoop_through(responses, attempt + 1, posts + 1,
                     sleeps + (IF attempt < CallbackAttempts - 1 THEN 1 ELSE 0))

RECURSIVE AttemptLoop(_, _, _, _)
AttemptLoop(responses, attempt, posts, sleeps) ==
    IF attempt >= CallbackAttempts
    THEN [outcome |-> "failure", posts |-> posts, sleeps |-> sleeps]
    ELSE IF responses[attempt + 1] = "success"
    THEN [outcome |-> "success", posts |-> posts + 1, sleeps |-> sleeps]
    ELSE AttemptLoop(responses, attempt + 1, posts + 1,
                     sleeps + (IF attempt < CallbackAttempts - 1 THEN 1 ELSE 0))

send_final_result_callback(responses) == AttemptLoop(responses, 0, 0, 0)

\* The sender raising before its first attempt (payload.model_dump(), the
\* client's construction).
SenderRaised == [outcome |-> "raise", posts |-> 0, sleeps |-> 0]

\* Everything awaiting the sender can give the wrapper.
SenderResults ==
    {send_final_result_callback(rs) : rs \in ResponseSeqs} \cup {SenderRaised}

\* background_callback_wrapper (lines 459-477) once the sender has returned
\* (success or failure) or raised.
Outcomes == {"success", "failure", "raise"}

CallbackResult(s, outcome, now) ==
    LET cleared == Put(s, "callback_in_progress", FALSE)
        attempts == Get(s, "callback_attempts", 0) + 1
        counted == Put(cleared, "callback_attempts", attempts)
    IN  CASE outcome = "success" -> Put(cleared, "callback_sent", TRUE)
          [] outcome = "failure" ->
               IF attempts >= RetryThreshold
               THEN Put(counted, "next_retry_at", now + RetryDelaySeconds)
               ELSE counted
          [] OTHER -> cleared

\* A wrapper that reports a failed or raising callback to the caller: the
\* variant C12 rules out.
background_callback_wrapper_escalating(i, sent) ==
    /\ reqs[i].pc = "callback"
    /\ store' = save_session(store, reqs[i].session_id,
                     CallbackResult(get_session(store, reqs[i].session_id),
                                    sent.outcome, LocalNow))
    /\ reqs' = [reqs EXCEPT ![i].pc = "done",
                            ![i].response.status =
                                IF sent.outcome = "success" THEN @ ELSE "error"]
    /\ delivered' = (delivered \/ sent.outcome = "success")
    /\ failures' = failures + (IF sent.outcome = "failure" THEN 1 ELSE 0)
    /\ coolUntil' = coolUntil
    /\ event' = [NoEvent EXCEPT !.kind = sent.outcome, !.posts = sent.posts,
                                !.sleeps = sent.sleeps,
                                !.session_id = reqs[i].session_id]
    /\ UNCHANGED <<storeKind, tzOffset, clock, started, dispatches>>

background_callback_wrapper(i, sent) ==
    LET outcome == sent.outcome
        s == get_session(store, reqs[i].session_id)
        result == CallbackResult(s, outcome, LocalNow)
    IN  /\ reqs[i].pc = "callback"
        /\ store' = save_session(store, reqs[i].session_id, result)
        /\ reqs' = [reqs EXCEPT ![i].pc = "done"]
        /\ delivered' = (delivered \/ outcome = "success")
        /\ failures' = failures + (IF outcome = "failure" THEN 1 ELSE 0)
        /\ coolUntil' = IF result.next_retry_at # s.next_retry_at
                        THEN result.next_retry_at ELSE coolUntil
        /\ event' = [NoEvent EXCEPT !.kind = outcome, !.posts = sent.posts,
                                    !.sleeps = sent.sleeps,
                                    !.session_id = reqs[i].session_id]
        /\ UNCHANGED <<storeKind, tzOffset, clock, started, dispatches>>

\* ------------------------------------------------------------ environment
\* A request: <<body, text, timestamp carries an offset, exchanges in the
\* caller's conversationHistory, extractor raises, scorer raises>>.  A
\* conversation is continued under its session id: the requests that get a
\* generated id are single messages that carry no scam text.
RequestInputs ==
    { <<"object", TxtHello, FALSE, 0, FALSE, FALSE>>,
      <<"object", TxtHello, FALSE, 7, FALSE, FALSE>>,
      <<"object", TxtUpi, FALSE, 0, FALSE, FALSE>>,
      <<"object", TxtKyc, FALSE, 0, FALSE, FALSE>>,
      <<"object", TxtKyc, FALSE, 7, FALSE, FALSE>>,
      <<"object", TxtUpi, FALSE, 3, FALSE, FALSE>>,
      <<"object", TxtKyc, TRUE, 0, FALSE, FALSE>>,
      <<"object", TxtUpi, FALSE, 0, TRUE, FALSE>>,
      <<"object", TxtKyc, FALSE, 0, FALSE, TRUE>> }
        \cup {<<body, "", FALSE, 0, FALSE, FALSE>> :
                 body \in BodyKinds \ {"object", "no_session_id"}}
        \cup {<<"no_session_id", TxtHello, FALSE, 0, FALSE, FALSE>>}

\* The requests of a conversation that is detected as a scam and has
\* reached 8 logical turns with its first message.
RetryInputs == { <<"object", TxtKyc, FALSE, 7, FALSE, FALSE>> }

PlatformSizes == {0, 3, 7}

\* The messages of a conversation without caller-supplied history: a
\* greeting, a message below the threshold on its own, one above it, and one
\* with a payment handle.
DetectInputs ==
    {<<"object", text, FALSE, 0, FALSE, FALSE>> :
        text \in {TxtHello, TxtOtp, TxtKyc, TxtUpi}}

\* The first request arrives at time 0.
Delays(d) == IF started = 0 THEN {0} ELSE {0, d}

Receive(inputs, max_requests, d) ==
    \E i \in 1..max_requests, delay \in Delays(d), inp \in inputs :
        ReceiveRequest(i, delay, inp[1], inp[2], inp[3], inp[4], inp[5], inp[6])

Resume == \E i \in Requests : ResumeWithReply(i, TxtReply)

Callback == \E i \in Requests, sent \in SenderResults :
                background_callback_wrapper(i, sent)

Next ==
    \/ Receive(RequestInputs, MaxRequests, TimeLimitSeconds)
    \/ Resume
    \/ Callback

Spec == Init /\ [][Next]_vars

DetectNext ==
    \/ Receive(DetectInputs, MaxRequests, TimeLimitSeconds)
    \/ Resume
    \/ Callback

DetectSpec == Init /\ [][DetectNext]_vars

\* A scam conversation whose timestamps may carry an offset, answered by
\* whatever the reply generator does.
ReplyInputs ==
    {<<"object", TxtKyc, aware, 0, FALSE, FALSE>> : aware \in BOOLEAN}

ResumeSafe ==
    \E i \in Requests, outcome \in GeneratorOutcomes, k \in DOMAIN fallbacks :
        ResumeWithReply(i, safe_agent_reply(outcome, fallbacks[k]))

ReplyNext ==
    \/ Receive(ReplyInputs, MaxRequests, TimeLimitSeconds)
    \/ ResumeSafe
    \/ Callback

ReplySpec == Init /\ [][ReplyNext]_vars

\* A conversation whose caller sends no history and waits for each reply,
\* up to its first dispatch: a scam message with or without a UPI handle,
\* then greetings, a second or 300 seconds apart, on a server on UTC, east
\* or west of it.
WestOffset == 0 - 18000

TurnInputs ==
    {<<"object", text, FALSE, 0, FALSE, FALSE>> :
        text \in (IF started = 0 THEN {TxtKyc, TxtPay} ELSE {TxtHello})}

TurnReceive ==
    /\ \A j \in Requests : reqs[j].pc # "reply"
    /\ dispatches = 0
    /\ \E i \in 1..MaxTurnRequests, inp \in TurnInputs,
          delay \in (IF started = 0 THEN {0} ELSE {1, TimeLimitSeconds}) :
            ReceiveRequest(i, delay, inp[1], inp[2], inp[3], inp[4], inp[5], inp[6])

TurnsInit == InitOf(StoreKinds, TzOffsets \cup {WestOffset}, {EmptyStore})

TurnsNext ==
    \/ TurnReceive
    \/ Resume
    \/ Callback

TurnsSpec == TurnsInit /\ [][TurnsNext]_vars

RetryNext ==
    \/ Receive(RetryInputs, MaxRetryRequests, RetryDelaySeconds)
    \/ Resume
    \/ Callback

RetrySpec == Init /\ [][RetryNext]_vars

\* Requests that keep arriving for a session detected on its first request
\* and complete by its age from the first request 300 seconds later,
\* against an endpoint that accepts from some point on: the requests before
\* the last arrive at any time and their callbacks end either way; the last
\* request stands for the ones that arrive once the earlier handlers and
\* tasks have finished and the cool-down is over, and the endpoint accepts
\* its callback.  The event loop runs every handler and task that is ready
\* and every request arrives, so the service does not stop while a step is
\* left to take.
LiveInputs == { <<"object", TxtKyc, FALSE, 0, FALSE, FALSE>> }

EarlyReceive == Receive(LiveInputs, MaxRetryRequests - 1, TimeLimitSeconds)

LateReceive ==
    /\ \A j \in Requests : reqs[j].pc \notin {"reply", "callback"}
    /\ \E inp \in LiveInputs :
          ReceiveRequest(MaxRetryRequests, TimeLimitSeconds,
                         inp[1], inp[2], inp[3], inp[4], inp[5], inp[6])

EndpointCallback ==
    \E i \in Requests, sent \in SenderResults :
        /\ sent.outcome # "raise"
        /\ i = MaxRetryRequests => sent.outcome = "success"
        /\ background_callback_wrapper(i, sent)

LiveNext ==
    \/ EarlyReceive
    \/ LateReceive
    \/ Resume
    \/ EndpointCallback

LiveSpec == Init /\ [][LiveNext]_vars /\ WF_vars(LiveNext)

\* The same service on servers with either local time.
OffsetInit == InitOf(StoreKinds, TzOffsets, {EmptyStore})

OffsetSpec == OffsetInit /\ [][Next]_vars

\* The reconciler on its own: a stored transcript and a caller's history,
\* each of up to MaxSample messages that may agree in sender, timestamp and
\* text up to case and surrounding blanks.
SampleMessages ==
    {Msg(sender, text, ts, FALSE) :
        sender \in {"scammer", "user"}, text \in {TxtHello, TxtShout},
        ts \in {1, 2}}

SampleHistories == UNION {[1..n -> SampleMessages] : n \in 0..MaxSample}

SampleStores ==
    {[k \in {SessionId} |-> [NewSession(0) EXCEPT !.internalHistory = internal]] :
        internal \in SampleHistories}

ReconcileInit == InitOf({"memory"}, {0}, SampleStores)

Reconcile(platform_history) ==
    /\ event.kind = "init"
    /\ event' = [NoEvent EXCEPT
                    !.kind = "reconcile",
                    !.platform_history = platform_history,
                    !.combined =
                        get_combined_history(
                            get_session(store, SessionId).internalHistory,
                            platform_history).msgs]
    /\ UNCHANGED <<storeKind, tzOffset, clock, store, reqs, started,
                   dispatches, delivered, failures, coolUntil>>

ReconcileNext == \E platform_history \in SampleHistories : Reconcile(platform_history)

ReconcileSpec == ReconcileInit /\ [][ReconcileNext]_vars

\* Requests without the key, on a store that holds no session or one with
\* a recorded transcript: any body, for the stored session or another.
BadKeys == ApiKeys \ {HONEYPOT_API_KEY}

AuthInputs ==
    {<<body, text, FALSE, platform, FALSE, FALSE>> :
        body \in {"object", "no_session_id", "malformed"},
        text \in {TxtHello, TxtKyc, TxtUpi}, platform \in {0, 7}}

AuthInit == InitOf(StoreKinds, {0}, SampleStores \cup {EmptyStore})

AuthNext ==
    \E i \in 1..MaxRequests, api_key \in BadKeys, delay \in Delays(TimeLimitSeconds),
       inp \in AuthInputs :
        honeypot_endpoint(i, api_key, delay, inp)

AuthSpec == AuthInit /\ [][AuthNext]_vars

\* The reconciler on stored transcripts with one malformed turn: a sender
\* that is no Sender, a timestamp that does not parse, no text.
MalformedTurns ==
    {[Msg("scammer", TxtHello, 1, FALSE) EXCEPT !.sender = "bot"],
     [Msg("user", TxtHello, 2, FALSE) EXCEPT !.ts = Unparseable],
     [sender |-> "scammer", ts |-> 1, aware |-> FALSE]}

PlainMessages ==
    {Msg(sender, TxtHello, ts, FALSE) : sender \in {"scammer", "user"}, ts \in {1, 2}}

PlainHistories == UNION {[1..n -> PlainMessages] : n \in 0..MaxSample}

MalformedStores ==
    UNION {{[k \in {SessionId} |->
                [NewSession(0) EXCEPT !.internalHistory =
                    SubSeq(h, 1, at) \o <<bad>> \o SubSeq(h, at + 1, Len(h))]] :
               at \in 0..Len(h), bad \in MalformedTurns} :
           h \in PlainHistories}

MalformedInit == InitOf({"memory"}, {0}, MalformedStores)

MalformedNext == \E platform_history \in PlainHistories : Reconcile(platform_history)

MalformedSpec == MalformedInit /\ [][MalformedNext]_vars

\* A session stored by an earlier version of the service: detected as a
\* scam, older than the time limit, without callback_in_progress,
\* next_retry_at, callback_attempts and internalHistory.
LegacySession ==
    [started_at |-> 0 - TimeLimitSeconds,
     totalMessagesExchanged |-> 7,
     scamDetected |-> TRUE,
     callback_sent |-> FALSE,
     extractedIntelligence |-> [k \in IntelKeys |-> {}],
     agentNotes |-> "Detected scam",
     last_agent_reply |-> "Ok"]

\* The stored records of that kind: with and without a recorded transcript.
LegacySessions == {LegacySession, Put(LegacySession, "internalHistory", <<>>)}

LegacyStores == {[k \in {SessionId} |-> session] : session \in LegacySessions}

LegacyInit == InitOf(StoreKinds, {0}, LegacyStores)

LegacyInputs ==
    { <<"object", TxtHello, FALSE, 0, FALSE, FALSE>>,
      <<"object", TxtKyc, FALSE, 7, FALSE, FALSE>> }

LegacyNext ==
    \/ Receive(LegacyInputs, MaxRequests, RetryDelaySeconds)
    \/ Resume
    \/ Callback

LegacySpec == LegacyInit /\ [][LegacyNext]_vars

\* ---------------------------------------------------- the extractor, alone
\* Texts that carry a handle: local part, domain and what follows it.
UpiTexts ==
    {local \o "@" \o domain \o tail :
        local \in {"name", "A.b_c-1"},
        domain \in {"okicici", "ybl", "sbi", "gmail.com", "gmail", "GMAIL.com",
                    "Yahoo.co.in", "zoho.in", "live", "example.com",
                    "rediffmail", "abcdefghijkl", "abcdefghijklm"},
        tail \in {"", ".", "--", " ok"}}
    \cup {"Contact me at abc@gmail.com or pay to name@okicici. Also avoid test@example.com",
          "a@b.c@ybl"}

\* A call that adds what it finds to what the call before it returned, as
\* an extractor that kept its result lists between calls would: the variant
\* C25 rules out.
Extract_accumulating(text) ==
    /\ Len(event.calls) < MaxCalls
    /\ event' = [NoEvent EXCEPT
                    !.kind = "extract",
                    !.calls = Append(event.calls,
                                     [text |-> text,
                                      result |->
                                        IF event.calls = <<>>
                                        THEN Extractor_extract_from_text(text)
                                        ELSE IntelUnion(
                                               event.calls[Len(event.calls)].result,
                                               Extractor_extract_from_text(text))])]
    /\ UNCHANGED <<storeKind, tzOffset, clock, store, reqs, started,
                   dispatches, delivered, failures, coolUntil>>

\* One call of extract_from_text on the extractor of the module: event.calls
\* records the text and what the call returned.  The call reads the compiled
\* patterns and the keyword list of the extractor and assigns nothing.
Extract(text) ==
    /\ Len(event.calls) < MaxCalls
    /\ event' = [NoEvent EXCEPT
                    !.kind = "extract",
                    !.calls = Append(event.calls,
                                     [text |-> text,
                                      result |-> Extractor_extract_from_text(text)])]
    /\ UNCHANGED <<storeKind, tzOffset, clock, store, reqs, started,
                   dispatches, delivered, failures, coolUntil>>

\* Texts that carry a digit run: a ten-digit number behind nothing, a
\* country code (spaced, hyphenated or joined), a trunk zero or a word, and
\* what follows it; and runs of 8, 9, 12, 18 and 19 digits.
MobileSamples == {"9876543210", "6123456789"}

PhoneTexts ==
    {prefix \o number \o tail :
        prefix \in {"", "+91", "+91 ", "+91-", "91", "0", "call "},
        number \in MobileSamples \cup {"5123456789"},
        tail \in {"", " ", "1", "a", "."}}
    \cup {"12345678", "123456789", "acct 123456789012",
          "123456789012345678", "1234567890123456789",
          "+91 9876543210 and 919876543210"}

\* Texts that carry a link: a shortener or another host, in lower or upper
\* case, with or without protocol, bare, quoted or in a sentence.
ShortenerSamples ==
    {"bit.ly/kyc2026", "tinyurl.com/kyc2026", "t.co/kyc2026", "rb.gy/kyc2026"}

UrlTexts ==
    {prefix \o link \o tail :
        prefix \in {"", "visit ", "see '", "http://", "https://"},
        link \in ShortenerSamples \cup {"BIT.LY/kyc2026", "evil.com/kyc2026"},
        tail \in {"", ".", "'", " now.", ")!?", "\""}}

ExtractTexts == UpiTexts \cup PhoneTexts \cup UrlTexts

ExtractInit == InitOf({"memory"}, {0}, {EmptyStore})

\* A single call on each of the sample texts.
ExtractNext == event.calls = <<>> /\ \E text \in ExtractTexts : Extract(text)

ExtractSpec == ExtractInit /\ [][ExtractNext]_vars

\* Up to MaxCalls calls in every order on a few texts, one for each kind of
\* finding and one without any.
CallTexts ==
    {"pay to name@okicici", "call +91 9876543210", "visit bit.ly/kyc2026 now.",
     "acct 123456789012", "Hello"}

ExtractorCallsNext == \E text \in CallTexts : Extract(text)

ExtractorCallsSpec == ExtractInit /\ [][ExtractorCallsNext]_vars

\* ------------------------------------------------------- the scorer, alone
\* otp, kyc and cvv spelled with one separator between the letters, and 0tp.
ObfuscatedWords ==
    {[word |-> word,
      spelling |-> At(word, 1) \o sep \o At(word, 2) \o sep \o At(word, 3)] :
        word \in {"otp", "kyc", "cvv"}, sep \in ObfuscationSeparators}
    \cup {[word |-> "otp", spelling |-> "0tp"]}

ObfuscatedTexts ==
    {prefix \o w.spelling : prefix \in {"", "Send "}, w \in ObfuscatedWords}

\* The current messages: those of verify_scam.py on word boundaries,
\* obfuscation and the history rule, keywords inside longer words, a keyword
\* the list holds twice, benign tokens, and a message with every kind of
\* evidence.
ScoreTexts ==
    ObfuscatedTexts
    \cup {"I am traveling to Japan", "update your pan",
          "Your o.t.p is 1234. Please verify! Urgent!",
          "Verify your account at bit.ly/scam now!",
          "Verify update verify update", "update your bank account",
          "Hello ok yes", "Hello verify your otp ok", "You won a prize",
          "urgent verify kyc otp 9876543210 name@ybl bit.ly/x"}

ScoreHistories ==
    {"", "Hello how are you", "update your bank account",
     "Verify your account at bit.ly/scam now!",
     "Your account is frozen. Click link at bit.ly/scam immediately!"}

\* One call of check_scam: event.calls records the two texts and what the
\* call returned.
Score(message_text, history_text) ==
    /\ Len(event.calls) < MaxCalls
    /\ event' = [NoEvent EXCEPT
                    !.kind = "score",
                    !.calls = Append(event.calls,
                                     [text |-> message_text,
                                      history |-> history_text,
                                      result |-> ScamDetector_check_scam(
                                                     message_text, history_text)])]
    /\ UNCHANGED <<storeKind, tzOffset, clock, store, reqs, started,
                   dispatches, delivered, failures, coolUntil>>

\* A single call on each pair of a current message and a history.
ScoreNext ==
    /\ event.calls = <<>>
    /\ \E message_text \in ScoreTexts, history_text \in ScoreHistories :
          Score(message_text, history_text)

ScoreSpec == ExtractInit /\ [][ScoreNext]_vars

\* ------------------------------------------------------------- properties
HasSession == SessionId \in DOMAIN store

Stored == get_session(store, SessionId)

\* Background tasks that were added and have not finished.
InFlight == {i \in Requests : reqs[i].pc = "callback"}

\* Handlers waiting for the agent's reply.
Suspended == {i \in Requests : reqs[i].pc = "reply"}

\* The session dicts some handler or the store holds.
KnownSessions ==
    (IF HasSession THEN {Stored} ELSE {})
        \cup {reqs[i].session : i \in {j \in Suspended : storeKind = "redis"}}

\* The messages of a transcript of the session for a caller that resends
\* p exchanges.
TranscriptOf(session, p) == PlatformHistory(p) \o session.internalHistory

\* C1: once a callback has reported success, no request dispatches the
\* callback again.
C1_AtMostOnce == delivered => ~event.dispatched

\* C2: at no instant are two callback tasks of the session pending.
C2_OneInFlight == Cardinality(InFlight) <= 1

\* C3: once the third failure has set next_retry_at, no request dispatches
\* before that instant.
C3_Throttled ==
    event.dispatched => (coolUntil = None \/ coolUntil <= LocalNow)

\* C4: the in-flight flag resolves: when no background task is pending and no
\* handler is waiting, callback_in_progress is false in the store.
C4_FlagResolves ==
    (HasSession /\ InFlight = {} /\ Suspended = {})
        => ~Stored.callback_in_progress

\* C5: check_completion is false for every session with scamDetected false,
\* whatever its turns, intelligence and age, and a dispatch leaves a session
\* with scamDetected true.
C5_NoDispatchWithoutScam ==
    /\ event.dispatched => get_session(store, event.session_id).scamDetected
    /\ \A s \in KnownSessions, p \in PlatformSizes :
          ~s.scamDetected => ~check_completion(s, TranscriptOf(s, p), clock)

\* A session not detected as a scam that holds a UPI handle, is 300 seconds
\* old and has 8 logical turns for a caller resending seven exchanges, and a
\* request on it that returned without dispatching.
C5_Witness ==
    /\ HasSession /\ ~Stored.scamDetected
    /\ event.kind = "return" /\ ~event.dispatched
    /\ Stored.extractedIntelligence.upiIds # {}
    /\ clock - Stored.started_at >= TimeLimitSeconds
    /\ Len(TranscriptOf(Stored, 7)) >= 2 * MaxTurns

\* The rule of C6, from its wording.
Counterparts(msgs) == Len(SelectSeq(msgs, LAMBDA m : m.sender = "scammer"))

Agents(msgs) == Len(SelectSeq(msgs, LAMBDA m : m.sender = "user"))

Turns(msgs) ==
    IF Counterparts(msgs) <= Agents(msgs) + 1
    THEN Counterparts(msgs) ELSE Agents(msgs) + 1

HighValue(session) ==
    \E k \in {"bankAccounts", "upiIds", "phishingLinks"} :
        session.extractedIntelligence[k] # {}

CompletionRule(session, msgs, utc_now) ==
    /\ session.scamDetected
    /\ \/ HighValue(session) /\ Turns(msgs) >= 4
       \/ Turns(msgs) >= 8
       \/ calculate_engagement_duration(session.started_at, utc_now) >= 300

\* The sessions and transcripts of C6's three cases.
ScamSession(upi) ==
    [NewSession(0) EXCEPT !.scamDetected = TRUE,
                          !.extractedIntelligence.upiIds = upi]

RECURSIVE Exchange(_, _)
Exchange(counterparts, agents) ==
    IF counterparts = 0 /\ agents = 0 THEN <<>>
    ELSE IF counterparts >= agents /\ counterparts > 0
    THEN Append(Exchange(counterparts - 1, agents),
                Msg("scammer", TxtHello, counterparts + agents, FALSE))
    ELSE Append(Exchange(counterparts, agents - 1),
                Msg("user", TxtReply, counterparts + agents, FALSE))

\* C6: check_completion is true exactly when scamDetected holds and (a)
\* high-value intelligence with 4 logical turns, (b) 8 logical turns or (c)
\* 300 seconds of age; 2+2 turns with a UPI handle do not complete, 4+3 with
\* a UPI handle do, 8 paired turns without intelligence do.
C6_CompletionRule ==
    /\ \A s \in KnownSessions, p \in PlatformSizes :
          check_completion(s, TranscriptOf(s, p), clock)
              <=> CompletionRule(s, TranscriptOf(s, p), clock)
    /\ ~check_completion(ScamSession({"name@okicici"}), Exchange(2, 2), 0)
    /\ check_completion(ScamSession({"name@okicici"}), Exchange(4, 3), 0)
    /\ check_completion(ScamSession({}), Exchange(8, 8), 0)

\* A detected session with a UPI handle and 2+2 recorded turns: not complete
\* on its own, complete for a caller that resends three exchanges.
C6_Witness ==
    /\ HasSession /\ Stored.scamDetected
    /\ Stored.extractedIntelligence.upiIds # {}
    /\ clock - Stored.started_at < TimeLimitSeconds
    /\ Len(Stored.internalHistory) = 4
    /\ ~check_completion(Stored, TranscriptOf(Stored, 0), clock)
    /\ check_completion(Stored, TranscriptOf(Stored, 3), clock)

\* C7: a stored scamDetected of true stays true at every step, and no step
\* taken from such a state consults the scorer.
C7_WriteOnce ==
    [][(HasSession /\ Stored.scamDetected)
          => (/\ Stored.scamDetected
              /\ ~(event.consulted /\ event.session_id = SessionId))']_vars

\* A second request on a detected session went to the agent without the
\* scorer being asked.
C7_Witness ==
    /\ HasSession /\ Stored.scamDetected
    /\ started >= 2
    /\ event.kind = "await" /\ ~event.consulted /\ event.session_id = SessionId

\* C8: no step removes an item from a category of the stored intelligence.
C8_Monotone ==
    [][HasSession =>
          \A k \in IntelKeys :
              Stored.extractedIntelligence[k] \subseteq Stored.extractedIntelligence[k]']_vars

\* C9: a stored callback_sent of true is never written back to false.
C9_SentWriteOnce ==
    [][(HasSession /\ Stored.callback_sent) => Stored.callback_sent']_vars

\* C10: against an endpoint that only ever reports failure, the session's
\* dispatches stay within the attempt budget (in-memory store).
C10_Budget ==
    (storeKind = "memory" /\ failures + Cardinality(InFlight) = dispatches)
        => dispatches <= RetryThreshold

\* C11: the sender makes at most 2 POSTs; it succeeds exactly when one of
\* them does and stops at the first that does; after two failed attempts
\* of any kind it reports failure; it sleeps once, between the attempts only;
\* and an attempt's exception never makes it raise.
C11_SenderBounded ==
    /\ \A rs \in ResponseSeqs :
          LET r == send_final_result_callback(rs)
              ok == {k \in 1..2 : rs[k] = "success"}
          IN  /\ r.outcome \in {"success", "failure"}
              /\ r.outcome = "success" <=> ok # {}
              /\ r.posts = (IF 1 \in ok THEN 1 ELSE 2)
              /\ r.sleeps = r.posts - 1
    /\ event.posts <= 2 /\ event.sleeps <= 1
    /\ event.kind = "raise" => event.posts = 0
    /\ event.kind = "failure" => event.posts = 2 /\ event.sleeps = 1

\* A callback that failed its first POST, slept, and succeeded with the
\* second.
C11_Witness ==
    event.kind = "success" /\ event.posts = 2 /\ event.sleeps = 1

\* C12: while a request's callback task is pending the request has already
\* been answered, and no step (the callback succeeding, failing or raising
\* included) changes a response once it is given.
C12_OffRequestPath ==
    [][\A i \in Requests :
          /\ reqs[i].pc = "callback" => reqs[i].response = SimpleResponse(TxtReply)
          /\ reqs[i].response # NoResponse => reqs[i].response' = reqs[i].response]_vars

\* A request that dispatched was answered, and its callback then failed.
C12_Witness ==
    \E i \in Requests :
        /\ reqs[i].pc = "done" /\ reqs[i].response = SimpleResponse(TxtReply)
        /\ event.kind \in {"failure", "raise"}

\* The UTC time at which the stored session was created.
CreatedAtUtc == Stored.started_at - tzOffset

\* C13: for a detected session that neither holds high-value intelligence
\* nor has 8 turns, check_completion is true exactly when 300 seconds of
\* real time have passed since the session was created, whatever the
\* server's UTC offset.
C13_RealElapsed ==
    (/\ HasSession /\ Stored.scamDetected /\ ~HighValue(Stored)
     /\ Turns(TranscriptOf(Stored, 0)) < MaxTurns)
        => (check_completion(Stored, TranscriptOf(Stored, 0), clock)
               <=> clock - CreatedAtUtc >= TimeLimitSeconds)

\* C14: get_combined_history returns for every transcript the program
\* holds and every history the caller sends, mixes of timestamps with and
\* without an offset included, and no request ends in the outer except
\* because it raised.
C14_ReconcilerTotal ==
    /\ event.error # "TypeError"
    /\ \A s \in KnownSessions, p \in PlatformSizes :
          get_combined_history(s.internalHistory,
                               CapHistory(PlatformHistory(p))).ok

\* The key of C15: sender, trimmed lower-cased text, ISO timestamp.
DedupeKey(m) == <<m.sender, strip_lower(m.text), m.ts, m.aware>>

\* C15: the result of get_combined_history holds no two messages with the
\* same key, holds a message for every key of the caller's history and of
\* the recorded transcript and for no other key, and for a key the caller
\* supplied it holds the caller's message as the caller spelled it.
C15_Deduplicated ==
    event.kind = "reconcile" =>
        LET r == event.combined
            p == event.platform_history
            n == Stored.internalHistory
            Keys(q) == {DedupeKey(q[i]) : i \in 1..Len(q)}
        IN  /\ \A i, j \in 1..Len(r) :
                  DedupeKey(r[i]) = DedupeKey(r[j]) => i = j
            /\ Keys(r) = Keys(p) \cup Keys(n)
            /\ \A i \in 1..Len(r) :
                  DedupeKey(r[i]) \in Keys(p)
                      => \E j \in 1..Len(p) : p[j] = r[i]

\* The recorded "Hello" and the caller's " HELLO " of the same sender and
\* time: the one message of the result is the caller's.
C15_Witness ==
    /\ event.kind = "reconcile"
    /\ Stored.internalHistory = <<Msg("scammer", TxtHello, 1, FALSE)>>
    /\ event.platform_history = <<Msg("scammer", TxtShout, 1, FALSE)>>
    /\ event.combined = <<Msg("scammer", TxtShout, 1, FALSE)>>

\* The session dict the latest request works on: the handler's own copy
\* with the Redis store while it waits for the agent, the stored dict
\* otherwise.
HandlerSession ==
    IF storeKind = "redis" /\ reqs[started].pc = "reply"
    THEN reqs[started].session ELSE Stored

\* C16: a request whose extractor raised leaves the session's intelligence
\* as it found it, a request whose scorer raised leaves scamDetected as it
\* found it, and either request goes on to the agent or to the completion
\* check, the save and the normal response instead of the outer except.
C16_StageFailureIsolated ==
    [][started' # started =>
          LET before == IF HasSession THEN Stored ELSE NewSession(0)
              after == HandlerSession'
          IN  /\ event'.extractor_raised =>
                    after.extractedIntelligence = before.extractedIntelligence
              /\ event'.scorer_raised => after.scamDetected = before.scamDetected
              /\ (event'.extractor_raised \/ event'.scorer_raised) =>
                    /\ event'.kind \in {"await", "return"}
                    /\ event'.kind = "return" =>
                          /\ reqs'[started'].response = SimpleResponse("")
                          /\ Len(Stored'.internalHistory)
                                = Len(before.internalHistory) + 1]_vars

\* The extractor raised on the message with the UPI handle and the request
\* returned with no UPI handle stored; the scorer raised on the keyword
\* message and the request returned with the session undetected.
C16_Witness ==
    /\ event.kind = "return"
    /\ \/ event.extractor_raised /\ Stored.extractedIntelligence.upiIds = {}
          /\ Stored.internalHistory[Len(Stored.internalHistory)].text = TxtUpi
       \/ event.scorer_raised /\ ~Stored.scamDetected
          /\ Stored.internalHistory[Len(Stored.internalHistory)].text = TxtKyc

C18_FailureLeavesSession ==
    [][event'.kind = "except" =>
          LET sid == event'.session_id
              before == get_session(store, sid)
              after == get_session(store', sid)
          IN  /\ started' # started =>
                    /\ Len(after.internalHistory) = Len(before.internalHistory) + 1
                    /\ after.callback_in_progress = before.callback_in_progress
                    /\ after.extractedIntelligence = before.extractedIntelligence
                    /\ after.scamDetected = before.scamDetected
              /\ \A i \in Requests :
                    (reqs[i].pc = "reply" /\ reqs'[i].pc = "done") =>
                        after = (IF storeKind = "redis"
                                 THEN reqs[i].session ELSE before)]_vars

\* C19: for a stored session without the later-added keys, once the first
\* request has returned the session holds the keys the handler defaults
\* and its transcript, and one callback was dispatched; once that callback
\* has succeeded the stored session has callback_sent true.
C19_LegacyProcessed ==
    /\ (started = 1 /\ reqs[1].pc \in {"callback", "done"}) =>
          /\ {"callback_in_progress", "next_retry_at", "internalHistory"}
                \subseteq DOMAIN Stored
          /\ dispatches = 1
    /\ (started = 1 /\ event.kind = "success") => Stored.callback_sent

\* C20: a request that arrives for a session whose stored callback_sent is
\* true does not ask the agent for a reply (and so records no agent turn).
C20_EngagementEnds ==
    [][(/\ HasSession /\ Stored.callback_sent
        /\ started' # started /\ event'.session_id = SessionId)
          => event'.kind # "await"]_vars

\* The last call of the extractor and what it returned.
LastCall == event.calls[Len(event.calls)]

\* C21: every handle extract_upi returns has a domain whose first label is
\* none of the generic e-mail providers, and whose full domain is in the
\* payment-provider allowlist or is dot-free with at most 12 characters.
C21_UpiFiltered ==
    event.kind = "extract" =>
        \A h \in LastCall.result.upi :
            LET domain == From(h, IndexFrom(h, "@", 1) + 1)
                dot == IndexFrom(domain, ".", 1)
            IN  /\ IndexFrom(h, "@", 1) > 0
                /\ (IF dot = 0 THEN domain ELSE Slice(domain, 1, dot - 1))
                       \notin email_providers
                /\ \/ domain \in allowlist_psps
                   \/ dot = 0 /\ Len(domain) <= 12

\* A text with an e-mail address and a payment handle: only the handle is
\* returned.
C21_Witness ==
    /\ event.kind = "extract"
    /\ Contains(LastCall.text, "abc@gmail.com")
    /\ LastCall.result.upi = {"name@okicici"}

\* The digit strings of a given length range.
IsDigitRun(s, lo, hi) ==
    Len(s) >= lo /\ Len(s) <= hi /\ CharsOf(s) \subseteq Digits

\* C22: extract_bank_accounts returns only runs of 9 to 18 digits, and no
\* run that is a mobile number extract_phone_numbers recognises in the same
\* text, bare or with its country code joined.
C22_NoPhoneAsBank ==
    event.kind = "extract" =>
        \A b \in LastCall.result.bank :
            /\ IsDigitRun(b, 9, 18)
            /\ "+91" \o b \notin LastCall.result.phones
            /\ "+" \o b \notin LastCall.result.phones

\* C23: every string extract_phone_numbers returns is +91 followed by ten
\* digits of which the first is 6 to 9, and a mobile number written bare,
\* with +91 (joined, spaced or hyphenated) or with 91 yields that one value.
C23_PhoneCanonical ==
    event.kind = "extract" =>
        /\ \A p \in LastCall.result.phones :
              /\ Len(p) = 13
              /\ Slice(p, 1, 3) = "+91"
              /\ At(p, 4) \in {"6", "7", "8", "9"}
              /\ IsDigitRun(From(p, 4), 10, 10)
        /\ \A n \in MobileSamples :
              LastCall.text \in {n, "+91" \o n, "+91 " \o n, "+91-" \o n, "91" \o n}
                  => LastCall.result.phones = {"+91" \o n}

\* A number written with the joined 91 prefix is returned in the +91 form.
C23_Witness ==
    /\ event.kind = "extract"
    /\ LastCall.text = "919876543210"
    /\ LastCall.result.phones = {"+919876543210"}

\* The trailing punctuation no returned URL may end in.
TrailingPunctuation == {")", ".", ",", ";", "!", "?", "\"", "'"}

\* Every protocol-less occurrence of a known shortener with a path is
\* returned with the https:// prefix.
ShortenersCompleted ==
    event.kind = "extract" =>
        \A s \in ShortenerSamples :
            (StartsWithAt(LastCall.text, 1, s) \/ Contains(LastCall.text, " " \o s))
                => "https://" \o s \in LastCall.result.links

\* C24: extract_urls returns every protocol-less known shortener with a
\* path as an https:// URL, and no URL it returns ends in one of the
\* characters ) . , ; ! ? " '.
C24_UrlsNormalized ==
    /\ ShortenersCompleted
    /\ event.kind = "extract" =>
          \A u \in LastCall.result.links :
              At(u, Len(u)) \notin TrailingPunctuation

C26_ConfidenceBounded ==
    event.kind = "score" =>
        LET r == LastCall.result
        IN  /\ r.cur.score >= 0
            /\ r.his.score >= 0
            /\ r.total2 >= 0
            /\ r.total2 <= 2 * 99
            /\ r.total2 = Min(2 * r.cur.score + r.his.score, 2 * 99)

\* A message and a history whose scores add up to more than 0.99.
C26_Witness ==
    /\ event.kind = "score"
    /\ 2 * LastCall.result.cur.score + LastCall.result.his.score > 2 * 99
    /\ LastCall.result.total2 = 2 * 99

\* A word stands in a text as a whole token: between characters that are
\* not letters, digits or underscores.
WholeToken(text, word) ==
    \E i \in 1..Len(text) :
        /\ StartsWithAt(text, i, word)
        /\ At(text, i - 1) \notin WordChars
        /\ At(text, i + Len(word)) \notin WordChars

\* C27: a single-word keyword counts only where it is a whole token of the
\* normalized message; "I am traveling to Japan" matches no keyword and is
\* no scam.
C27_TokenBoundary ==
    event.kind = "score" =>
        /\ \A kw \in LastCall.result.matched :
              " " \notin CharsOf(kw) => WholeToken(LastCall.result.normalized, kw)
        /\ LastCall.text = "I am traveling to Japan"
              => LastCall.result.matched = {} /\ ~LastCall.result.is_scam

\* The message with "pan" inside "Japan" has been scored on its own.
C27_Witness ==
    /\ event.kind = "score"
    /\ LastCall.text = "I am traveling to Japan"
    /\ LastCall.history = ""
    /\ Contains(LastCall.result.normalized, "pan")
    /\ LastCall.result.cur.score = 0
    /\ ~LastCall.result.is_scam

\* C28: otp, kyc and cvv written with dots, dashes, underscores or spaces
\* between the letters, and 0tp, are matched as the plain keyword; the
\* message with o.t.p, verify and urgent scores at least 0.65 and is
\* detected.
C28_Deobfuscated ==
    event.kind = "score" =>
        /\ \A w \in ObfuscatedWords :
              LastCall.text \in {w.spelling, "Send " \o w.spelling}
                  => /\ w.word \in LastCall.result.matched
                     /\ LastCall.result.cur.strong
        /\ LastCall.text = "Your o.t.p is 1234. Please verify! Urgent!"
              => /\ {"otp", "verify", "urgent"} \subseteq LastCall.result.matched
                 /\ LastCall.result.cur.score >= ScamThreshold
                 /\ LastCall.result.is_scam

\* The obfuscated message of verify_scam.py scored without history.
C28_Witness ==
    /\ event.kind = "score"
    /\ LastCall.text = "Your o.t.p is 1234. Please verify! Urgent!"
    /\ LastCall.history = ""
    /\ LastCall.result.cur.score = 66
    /\ LastCall.result.is_scam

\* C29: a message is a scam exactly when the current text has strong
\* evidence and the total reaches the threshold, or the history has any
\* evidence and the total reaches the threshold plus 0.10; without strong
\* evidence in the current text a total below that is never a scam.
C29_DecisionRule ==
    event.kind = "score" =>
        LET r == LastCall.result
        IN  /\ r.is_scam <=>
                  \/ r.cur.strong /\ r.total2 >= 2 * ScamThreshold
                  \/ r.his.any /\ r.total2 >= 2 * (ScamThreshold + HistoryMargin)
            /\ ~r.cur.strong /\ r.total2 < 2 * (ScamThreshold + HistoryMargin)
                  => ~r.is_scam

\* A message without strong evidence, on a history with evidence, whose
\* total lies between the threshold and the threshold plus 0.10.
C29_Witness ==
    /\ event.kind = "score"
    /\ ~LastCall.result.cur.strong
    /\ LastCall.result.his.any
    /\ LastCall.result.total2 >= 2 * ScamThreshold
    /\ LastCall.result.total2 < 2 * (ScamThreshold + HistoryMargin)
    /\ ~LastCall.result.is_scam

\* C30: get_combined_history returns the messages by non-decreasing
\* timestamp, and messages of one timestamp in the order caller's history
\* first, recorded transcript second, each in its own order.
C30_StableOrder ==
    event.kind = "reconcile" =>
        LET r == event.combined
            source == event.platform_history \o Stored.internalHistory
            First(m) == CHOOSE k \in 1..Len(source) :
                            /\ source[k] = m
                            /\ \A l \in 1..(k - 1) : source[l] # m
        IN  \A i, j \in 1..Len(r) :
                i < j => /\ r[i].ts <= r[j].ts
                         /\ r[i].ts = r[j].ts => First(r[i]) < First(r[j])

\* A caller's history that is out of order and a recorded turn with the
\* timestamp of the caller's earlier message.
C30_Witness ==
    /\ event.kind = "reconcile"
    /\ event.platform_history =
           <<Msg("scammer", TxtHello, 2, FALSE), Msg("user", TxtHello, 1, FALSE)>>
    /\ Stored.internalHistory = <<Msg("scammer", TxtHello, 1, FALSE)>>
    /\ event.combined =
           <<Msg("user", TxtHello, 1, FALSE), Msg("scammer", TxtHello, 1, FALSE),
             Msg("scammer", TxtHello, 2, FALSE)>>

\* C31: the history scored with a message is the transcript before it: on
\* the first request of a session, without caller-supplied history, the
\* session is detected exactly when the message alone is a scam.
C31_HistoryIsPrior ==
    (/\ started = 1 /\ HasSession
     /\ event.kind \in {"await", "return"}
     /\ event.session_id = SessionId
     /\ event.consulted /\ ~event.scorer_raised)
        => LET text == Stored.internalHistory[1].text
           IN  /\ (event.kind = "await" /\ reqs[1].platform = 0)
                     => check_scam(text, <<>>)
               /\ check_scam(text, <<>>) => event.kind = "await"

\* The terms of a keyword list.
Terms(keywords) == {keywords[k] : k \in DOMAIN keywords}

\* The score C32 states for a text, from what was found in it: the matched
\* terms, the URL / phone / UPI hits and the benign tokens.
FormulaScore(high, medium, url, phone, upi, benign) ==
    LET keyword_score == 22 * Cardinality(high) + 10 * Cardinality(medium)
        strong == url \/ phone \/ upi \/ high # {}
        s == Min(keyword_score, 70)
             + (IF url THEN 22 ELSE 0) + (IF phone THEN 15 ELSE 0)
             + (IF upi THEN 18 ELSE 0)
             - (IF strong THEN 0 ELSE 15 * Cardinality(benign))
    IN  Max(0, s)

\* The same with the entries of the keyword lists counted by position, as
\* the loops of calculate_text_score count them.
ScoreByListEntry ==
    event.kind = "score" =>
        LET f == LastCall.result.features
        IN  LastCall.result.cur.score
                = FormulaScore(f.high, f.medium, f.url, f.phone, f.upi, f.negative)

\* C32: a text scores 0.22 per matched high-risk term and 0.10 per matched
\* medium-risk term, at most 0.70 for keywords, plus 0.22 / 0.15 / 0.18 for
\* a URL / phone / UPI handle, minus 0.15 per benign token only without
\* strong evidence, and never below 0.
C32_ScoreFormula ==
    event.kind = "score" =>
        LET r == LastCall.result
            f == r.features
        IN  r.cur.score
                = FormulaScore(r.matched \cap Terms(high_risk_keywords),
                               r.matched \cap Terms(medium_risk_keywords),
                               f.url, f.phone, f.upi,
                               {negative_keywords[k] : k \in f.negative})

\* C33: callback_attempts never decreases; a callback whose sender reported
\* failure adds exactly 1 to it and one that reported success leaves it as
\* it was; next_retry_at is unset while callback_attempts is below 3.
C33_AttemptsExact ==
    [][(HasSession /\ HasSession') =>
          LET before == Stored.callback_attempts
              after == Stored.callback_attempts'
              mine == event.session_id' = SessionId
          IN  /\ after >= before
              /\ (event.kind' = "failure" /\ mine) => after = before + 1
              /\ (event.kind' = "success" /\ mine) => after = before
              /\ after < RetryThreshold => Stored.next_retry_at' = None]_vars

\* The same for the store that hands out the stored dict itself.
AttemptsExactInMemory ==
    [][storeKind = "memory" => C33_AttemptsExact!1]_vars

\* The agent turns of a transcript.
AgentTurns(session) ==
    SelectSeq(session.internalHistory, LAMBDA m : m.sender = "user")

\* The session a suspended handler works on.
Working(i) ==
    IF storeKind = "memory" THEN get_session(store, reqs[i].session_id)
    ELSE reqs[i].session

\* Every agent turn of every stored session has a text.
AgentTurnsHaveText ==
    \A id \in DOMAIN store :
        \A k \in DOMAIN store[id].internalHistory :
            LET m == store[id].internalHistory[k]
            IN  m.sender = "user" => (m.text # "" /\ strip(m.text) = m.text)

\* A handler that has the agent's reply records it as one agent turn, the
\* last of the transcript, after the counterpart turn it answers.
ReplyRecorded ==
    [][\A i \in Suspended :
          reqs[i].pc' # "reply" =>
              LET before == Working(i)
                  after == get_session(store, reqs[i].session_id)'
                  h == after.internalHistory
              IN  /\ Len(AgentTurns(after)) = Len(AgentTurns(before)) + 1
                  /\ h[Len(h)].sender = "user"
                  /\ h[Len(h)].text # ""
                  /\ \E k \in 1..(Len(h) - 1) : h[k].sender = "scammer"]_vars

\* C34: every agent turn of internalHistory has a non-empty text, whatever
\* the reply generator did, and a request on a scam-detected session goes on
\* to the agent and appends exactly one agent turn after the counterpart
\* turn it answers.
C34_AgentTurnRecorded ==
    [][/\ AgentTurnsHaveText'
       /\ ReplyRecorded!1
       /\ (HasSession /\ Stored.scamDetected /\ started' = started + 1
              /\ event.session_id' = SessionId)
             => event.kind' = "await"]_vars

\* The same on the steps in which the reconciler does not raise.
AgentTurnRecordedUnlessRaised ==
    [][event.error' # "TypeError" => C34_AgentTurnRecorded!1]_vars

\* A stored turn as the service writes it.
WellFormedTurn(m) ==
    /\ DOMAIN m = DOMAIN Msg("user", "", 0, FALSE)
    /\ m.sender \in {"scammer", "user"}
    /\ m.ts \in 0..MaxSample

\* C35: a malformed stored turn (unknown sender, unparseable timestamp or
\* missing field) is left out of the reconciled transcript, which still
\* holds every other recorded turn and every message of the caller.
C35_MalformedDropped ==
    event.kind = "reconcile" =>
        LET r == event.combined
            p == event.platform_history
            n == Stored.internalHistory
            good == SelectSeq(n, WellFormedTurn)
            Keys(q) == {DedupeKey(q[i]) : i \in 1..Len(q)}
        IN  /\ \A i \in 1..Len(r) : WellFormedTurn(r[i])
            /\ Keys(r) = Keys(p) \cup Keys(good)
            /\ \A i \in 1..Len(good) : \E j \in 1..Len(r) :
                  DedupeKey(r[j]) = DedupeKey(good[i])
            /\ \A i \in 1..Len(p) : \E j \in 1..Len(r) :
                  DedupeKey(r[j]) = DedupeKey(p[i])

\* A turn without a text between two recorded turns, and a caller's
\* message: the result holds the three that are well-formed.
C35_Witness ==
    /\ event.kind = "reconcile"
    /\ Stored.internalHistory =
           <<Msg("scammer", TxtHello, 1, FALSE),
             [sender |-> "scammer", ts |-> 1, aware |-> FALSE],
             Msg("user", TxtHello, 2, FALSE)>>
    /\ event.platform_history = <<Msg("user", TxtHello, 1, FALSE)>>
    /\ event.combined =
           <<Msg("user", TxtHello, 1, FALSE), Msg("scammer", TxtHello, 1, FALSE),
             Msg("user", TxtHello, 2, FALSE)>>

\* The background tasks of a session that were added and have not finished.
PendingTasks(id) ==
    {i \in Requests : reqs[i].pc = "callback" /\ reqs[i].session_id = id}

\* C36: callback_in_progress is true in the store only while a background
\* callback task of that session is scheduled and has not finished.
C36_FlagMeansPending ==
    \A id \in DOMAIN store :
        Get(store[id], "callback_in_progress", FALSE) => PendingTasks(id) # {}

\* The same for the store that hands out the stored dict itself.
FlagMeansPendingInMemory == storeKind = "memory" => C36_FlagMeansPending

\* totalMessagesExchanged and the length of the transcript of a session,
\* 0 for a session not yet stored.
Exchanged(st, id) ==
    IF id \in DOMAIN st THEN st[id].totalMessagesExchanged ELSE 0

Recorded(st, id) ==
    IF id \in DOMAIN st THEN Len(st[id].internalHistory) ELSE 0

\* C37: for a session the handler created, totalMessagesExchanged never
\* decreases and is the number of entries of internalHistory whenever the
\* session is saved; a request adds 1 to both when it records the
\* counterpart turn and 1 more when it records the agent turn.
C37_CountsTranscript ==
    [][\A id \in DOMAIN store' :
          LET grown == Exchanged(store', id) - Exchanged(store, id)
              id_handled == event.session_id' = id
          IN  /\ Exchanged(store', id) = Recorded(store', id)
              /\ grown >= 0
              /\ (id_handled /\ event.kind' \in {"await", "except", "return"})
                    => grown = 1
              /\ ~(id_handled /\ event.kind' \in {"await", "except", "return"})
                    => grown = 0]_vars

\* The same for the store that hands out the stored dict itself.
CountsTranscriptInMemory ==
    [][storeKind = "memory" => C37_CountsTranscript!1]_vars

\* C38: without caller-supplied history no callback is dispatched before
\* the 4th request of a session unless 300 seconds have passed since the
\* session was created; within those 300 seconds a session detected on its
\* first request is dispatched first on the 4th request when that request
\* carried high-value intelligence, and on the 8th when no request did.
C38_DispatchTiming ==
    (HasSession /\ event.session_id = SessionId
        /\ clock - CreatedAtUtc < TimeLimitSeconds)
        => LET first == Stored.internalHistory[1].text
               due == IF first = TxtPay THEN MinTurnsWithIntel ELSE MaxTurns
           IN  /\ event.dispatched => started >= MinTurnsWithIntel
               /\ event.kind = "return" => (dispatches >= 1 <=> started >= due)

\* The same on a server whose local time is not behind UTC.
DispatchTimingFromUtcEastwards == tzOffset >= 0 => C38_DispatchTiming

\* Every request has arrived and no handler or task is left to run: the
\* state every behaviour of LiveSpec ends in.
Finished ==
    /\ started = MaxRetryRequests
    /\ \A j \in Requests : reqs[j].pc \notin {"reply", "callback"}

\* C39: a scam-detected session that meets a completion criterion, whose
\* requests keep arriving and whose endpoint accepts from some point on,
\* eventually has callback_sent true: it is true once the requests, the
\* last of which found the endpoint accepting, and their tasks are done.
C39_EventuallyDelivered ==
    (Finished /\ Stored.scamDetected
        /\ check_completion(Stored, TranscriptOf(Stored, 0), clock))
        => Stored.callback_sent

\* The same for the store that hands out the stored dict itself.
EventuallyDeliveredInMemory == storeKind = "memory" => C39_EventuallyDelivered

\* C40: a POST with a missing or wrong x-api-key changes nothing: no
\* session is created or modified, neither the extractor nor the scorer nor
\* the agent runs, no callback is dispatched; the caller gets the
\* authentication-failed reply.
C40_RejectedChangesNothing ==
    [][started' = started + 1 =>
          /\ store' = store
          /\ dispatches' = dispatches
          /\ event.kind' = "rejected"
          /\ ~event.consulted' /\ ~event.dispatched'
          /\ reqs'[started'].pc = "done"
          /\ reqs'[started'].response = SimpleResponse(AuthFailedReply)]_vars

\* A request without the key on a store that holds a session with two
\* recorded turns.
C40_Witness ==
    /\ event.kind = "rejected"
    /\ started = MaxRequests
    /\ HasSession
    /\ Len(Stored.internalHistory) = MaxSample
    /\ Stored.totalMessagesExchanged = 0


\* What C1, C2, C3 and C4 ask for holds with the in-memory store, whose
\* get_session hands every handler the stored dict itself.
InMemoryCallbackSafety ==
    storeKind = "memory"
        => C1_AtMostOnce /\ C2_OneInFlight /\ C3_Throttled /\ C4_FlagResolves

====
